---- MODULE Spec2Model ----
(***************************************************************************)
(* The Recall card game engine (recall_game_rust): the table state, the    *)
(* action dispatcher, the turn/phase engine with its two timed windows,    *)
(* and the winner resolver.                                                *)
(*                                                                         *)
(* Handlers are operators from a table record to a table record, composed  *)
(* the way the Rust methods call one another; one action of Next is one    *)
(* serialized event (a player action or a timer callback).                 *)
(***************************************************************************)
EXTENDS Naturals, Integers, Sequences, FiniteSets, TLC

(* ------------------------------------------------------------------ *)
(* Bounds of the model                                                  *)
(* ------------------------------------------------------------------ *)

\* Number of serialized events (actions and timer callbacks) explored.
MaxSteps == 5

\* Number of requests outside the protocol of play (out of turn, out of phase,
\* malformed, reserved or unknown tag, unknown session) explored in one run.
MaxStray == 1

\* Largest total of points of one player fed to the winner resolver.
MaxHand == 2

(* ------------------------------------------------------------------ *)
(* Cards, players                                                       *)
(* ------------------------------------------------------------------ *)

\* Option::None for a card slot, a register, a player id.
NoCard == 0
NoPlayer == "none"

Players == {"A", "B"}

\* A session id that the table binds to no player.
Outsider == "X"

\* Option::None for a session id.
NoSession == "no_session"

\* CardRank::to_string
RankToString(r) ==
  CASE r = "Joker" -> "joker"
    [] r = "Ace" -> "ace"
    [] r = "Seven" -> "7"
    [] r = "Nine" -> "9"
    [] r = "Jack" -> "jack"
    [] r = "Queen" -> "queen"
    [] r = "King" -> "king"

\* str::to_lowercase on the strings RankToString produces (all lower case).
ToLowercase(str) ==
  CASE str = "JACK" -> "jack"
    [] str = "QUEEN" -> "queen"
    [] OTHER -> str

\* The points the deck builder gives a rank.
RankPoints(r) ==
  CASE r = "Joker" -> 0
    [] r = "Ace" -> 1
    [] r = "Seven" -> 7
    [] r = "Nine" -> 9
    [] r \in {"Jack", "Queen", "King"} -> 10

\* The deck the table is dealt from: card id i is Deck[i].
Deck ==
  << [rank |-> "Seven"], [rank |-> "Jack"],
     [rank |-> "Seven"], [rank |-> "Queen"],
     [rank |-> "Ace"], [rank |-> "Seven"] >>

CardIds == 1..Len(Deck)

RankOf(c) == Deck[c].rank

\* Card::get_point_value
get_point_value(c) == RankPoints(RankOf(c))

(* ------------------------------------------------------------------ *)
(* Sequences as Vec                                                     *)
(* ------------------------------------------------------------------ *)

\* Iterator::position: first index holding x, 0 when absent.
Position(seq, x) ==
  IF \E i \in 1..Len(seq) : seq[i] = x
  THEN CHOOSE i \in 1..Len(seq) : seq[i] = x /\ \A j \in 1..(i - 1) : seq[j] # x
  ELSE 0

\* Vec::remove(i)
VecRemove(seq, i) == [k \in 1..(Len(seq) - 1) |-> IF k < i THEN seq[k] ELSE seq[k + 1]]

\* Vec::insert(i, x)
VecInsert(seq, i, x) ==
  [k \in 1..(Len(seq) + 1) |-> IF k < i THEN seq[k] ELSE IF k = i THEN x ELSE seq[k - 1]]

\* Vec::pop leaves this
Front(seq) == SubSeq(seq, 1, Len(seq) - 1)

Top(seq) == seq[Len(seq)]

SeqToSet(seq) == {seq[i] : i \in 1..Len(seq)}

\* The orders in which a HashMap over the players may be iterated.
Orders == {o \in [1..Cardinality(Players) -> Players] : SeqToSet(o) = Players}

(* ------------------------------------------------------------------ *)
(* Player                                                               *)
(* ------------------------------------------------------------------ *)

\* A hand that takes every new card in a new slot at the end.
AddCardToHandAtEnd(h, c) == Append(h, c)

\* Player::add_card_to_hand
add_card_to_hand(h, c) ==
  IF Position(h, NoCard) # 0 THEN [h EXCEPT ![Position(h, NoCard)] = c] ELSE Append(h, c)

\* A removal that closes the gap: the slots after the card move one index down.
RemoveCardFromHandClosingGap(h, c) ==
  IF c # NoCard /\ Position(h, c) # 0 THEN VecRemove(h, Position(h, c)) ELSE h

\* Player::remove_card_from_hand (the hand it leaves)
remove_card_from_hand(h, c) ==
  IF c # NoCard /\ Position(h, c) # 0 THEN [h EXCEPT ![Position(h, c)] = NoCard] ELSE h

\* The cards of a hand, holes left out.
HandCards(h) == SelectSeq(h, LAMBDA x : x # NoCard)

RECURSIVE SumPoints(_)
SumPoints(cards) ==
  IF cards = <<>> THEN 0 ELSE get_point_value(Head(cards)) + SumPoints(Tail(cards))

\* Player::is_active
IsActive(s, p) == s.is_active[p] /\ s.status[p] \notin {"finished", "disconnected"}

\* The players map holds the keys of s.status.
ActivePlayers(s) == {p \in DOMAIN s.status : IsActive(s, p)}

\* A status update that does not skip the inactive players.
SetEveryStatus(s, st) == [s EXCEPT !.status = [p \in Players |-> st]]

\* for player in players.values_mut() { if player.is_active() { set_status(st) } }
SetActiveStatus(s, st) ==
  [s EXCEPT !.status = [p \in Players |-> IF IsActive(s, p) THEN st ELSE s.status[p]]]

(* ------------------------------------------------------------------ *)
(* State                                                                *)
(* ------------------------------------------------------------------ *)

VARIABLES
  phase,                \* GameState.phase
  status,               \* Player.status, per player
  hand,                 \* Player.hand, per player: slots holding a card id or NoCard
  drawn_card,           \* Player.drawn_card, per player
  cards_to_peek,        \* Player.cards_to_peek, per player
  is_active,            \* Player.is_active flag, per player
  name,                 \* Player.name, per player
  order,                \* iteration order of the players HashMap
  draw_pile,            \* GameState.draw_pile, top last
  discard_pile,         \* GameState.discard_pile, top last
  pending_draws,        \* GameState.pending_draws (player -> card)
  current_player_id,    \* GameState.current_player_id
  recall_called_by,     \* GameState.recall_called_by
  last_action_time,     \* GameState.last_action_time (0 is None)
  same_rank_data,       \* GameRound.same_rank_data: player -> play data
  special_card_data,    \* GameRound.special_card_data
  special_card_players, \* GameRound.special_card_players (working queue)
  same_rank_timer,      \* GameRound.same_rank_timer is Some
  special_card_timer,   \* GameRound.special_card_timer is Some
  pending_events,       \* GameRound.pending_events
  player_sessions,      \* GameState.player_sessions (player id -> session id)
  session_players,      \* GameState.session_players (session id -> player id)
  game_started,         \* GameState.game_started
  min_players,          \* GameState.min_players
  same_rank_due,        \* scheduler: a same-rank callback is armed and not yet delivered
  special_due,          \* scheduler: a special-card callback is armed and not yet delivered
  quiet,                \* environment: no further player action arrives
  ticks,                \* scheduler: one bit per timer, flipped by each delivery
  advances,             \* history: the invocations of _move_to_next_player run in a row
  now,                  \* the clock: number of the event being served
  stray,                \* history: requests outside the protocol of play so far
  trace,                \* history: distinct phase values since the last start_turn
  plays,                \* history: play orders given since same_rank_data was cleared
  verdict,              \* history: the resolver's latest verdict
  last                  \* history: the latest event and its result

vars ==
  << phase, status, hand, drawn_card, cards_to_peek, is_active, name, order,
     draw_pile, discard_pile, pending_draws, current_player_id, recall_called_by,
     last_action_time, same_rank_data, special_card_data, special_card_players,
     same_rank_timer, special_card_timer, pending_events, player_sessions,
     session_players, game_started, min_players, same_rank_due, special_due, quiet,
     ticks, advances, now, stray, trace, plays, verdict, last >>

\* History of one event: whether _move_to_next_player was entered, and the
\* current-player pointer, the number of active players, the list of
\* active players and the phases of the turn it found on entry.
NotMoved ==
  [entered |-> FALSE, from |-> NoPlayer, n_active |-> 0, active |-> <<>>, trace |-> <<>>]

\* No callback delivered yet.
NoTicks == [same_rank |-> FALSE, special |-> FALSE]

\* The table as one record, as the handlers see it through &mut self.
Cur ==
  [ phase |-> phase, status |-> status, hand |-> hand, drawn_card |-> drawn_card,
    cards_to_peek |-> cards_to_peek, is_active |-> is_active, name |-> name,
    order |-> order, draw_pile |-> draw_pile, discard_pile |-> discard_pile,
    pending_draws |-> pending_draws, current_player_id |-> current_player_id,
    recall_called_by |-> recall_called_by, last_action_time |-> last_action_time,
    same_rank_data |-> same_rank_data, special_card_data |-> special_card_data,
    special_card_players |-> special_card_players, same_rank_timer |-> same_rank_timer,
    special_card_timer |-> special_card_timer, pending_events |-> pending_events,
    player_sessions |-> player_sessions, session_players |-> session_players,
    game_started |-> game_started, min_players |-> min_players,
    same_rank_due |-> same_rank_due, special_due |-> special_due, quiet |-> quiet,
    ticks |-> ticks, advances |-> advances,
    trace |-> trace, plays |-> plays, verdict |-> verdict,
    \* what the event being served returns and reports (history only)
    ok |-> TRUE, why |-> "", penalty |-> NoCard, moved |-> NotMoved, drained |-> 0 ]

\* Write a table record back to the variables.
Commit(s) ==
  /\ phase' = s.phase
  /\ status' = s.status
  /\ hand' = s.hand
  /\ drawn_card' = s.drawn_card
  /\ cards_to_peek' = s.cards_to_peek
  /\ is_active' = s.is_active
  /\ name' = s.name
  /\ order' = s.order
  /\ draw_pile' = s.draw_pile
  /\ discard_pile' = s.discard_pile
  /\ pending_draws' = s.pending_draws
  /\ current_player_id' = s.current_player_id
  /\ recall_called_by' = s.recall_called_by
  /\ last_action_time' = s.last_action_time
  /\ same_rank_data' = s.same_rank_data
  /\ special_card_data' = s.special_card_data
  /\ special_card_players' = s.special_card_players
  /\ same_rank_timer' = s.same_rank_timer
  /\ special_card_timer' = s.special_card_timer
  /\ pending_events' = s.pending_events
  /\ player_sessions' = s.player_sessions
  /\ session_players' = s.session_players
  /\ game_started' = s.game_started
  /\ min_players' = s.min_players
  /\ same_rank_due' = s.same_rank_due
  /\ special_due' = s.special_due
  /\ quiet' = s.quiet
  /\ ticks' = s.ticks
  /\ advances' = s.advances
  /\ trace' = s.trace
  /\ plays' = s.plays
  /\ verdict' = s.verdict

\* game_state.phase = ph, with the history of distinct values.
SetPhase(s, ph) ==
  [s EXCEPT !.phase = ph,
            !.trace = IF s.trace # <<>> /\ Top(s.trace) = ph THEN s.trace
                      ELSE Append(s.trace, ph)]

\* An absent key of same_rank_data.
NoPlay == [card_id |-> NoCard, play_order |-> 0]

\* HashMap::new / clear for same_rank_data.
NoSameRankData == [p \in Players |-> NoPlay]

\* HashMap::len
MapLen(m) == Cardinality({p \in Players : m[p] # NoPlay})

NoVerdict ==
  [is_tie |-> FALSE, winner_id |-> NoPlayer, win_reason |-> "none", winners |-> <<>>]

(* ------------------------------------------------------------------ *)
(* Winner resolver                                                      *)
(* ------------------------------------------------------------------ *)

\* The players of dom in the order a HashMap iterated as io yields them.
IterOrder(io, dom) == SelectSeq(io, LAMBDA p : p \in dom)

Min(S) == CHOOSE x \in S : \A y \in S : x <= y

\* A resolver without rule 4: players tied at the minimum always tie, whoever
\* called recall.
DetermineWinnerNoRecallRule(results, io, recall) ==
  LET it == IterOrder(io, DOMAIN results)
      empties == SelectSeq(it, LAMBDA p : results[p].card_count = 0)
      min_points == IF DOMAIN results = {} THEN 0
                    ELSE Min({results[p].total_points : p \in DOMAIN results})
      lowest == SelectSeq(it, LAMBDA p : results[p].total_points = min_points)
  IN  IF empties # <<>>
      THEN [is_tie |-> FALSE, winner_id |-> Head(empties),
            win_reason |-> "no_cards", winners |-> <<>>]
      ELSE IF Len(lowest) = 1
      THEN [is_tie |-> FALSE, winner_id |-> lowest[1],
            win_reason |-> "lowest_points", winners |-> <<>>]
      ELSE [is_tie |-> TRUE, winner_id |-> NoPlayer,
            win_reason |-> "tie_lowest_points",
            winners |-> [i \in 1..Len(lowest) |-> results[lowest[i]].name]]

\* GameRound::_determine_winner. results: player id -> [name, card_count,
\* total_points]; io: the iteration order of the results map; recall: recall_called_by.
DetermineWinner(results, io, recall) ==
  LET it == IterOrder(io, DOMAIN results)
      empties == SelectSeq(it, LAMBDA p : results[p].card_count = 0)
      min_points == IF DOMAIN results = {} THEN 0
                    ELSE Min({results[p].total_points : p \in DOMAIN results})
      lowest == SelectSeq(it, LAMBDA p : results[p].total_points = min_points)
  IN  IF empties # <<>>
      THEN [is_tie |-> FALSE, winner_id |-> Head(empties),
            win_reason |-> "no_cards", winners |-> <<>>]
      ELSE IF Len(lowest) = 1
      THEN [is_tie |-> FALSE, winner_id |-> lowest[1],
            win_reason |-> "lowest_points", winners |-> <<>>]
      ELSE IF recall # NoPlayer /\ recall \in SeqToSet(lowest)
      THEN [is_tie |-> FALSE, winner_id |-> recall,
            win_reason |-> "recall_caller_lowest_points", winners |-> <<>>]
      ELSE [is_tie |-> TRUE, winner_id |-> NoPlayer,
            win_reason |-> "tie_lowest_points",
            winners |-> [i \in 1..Len(lowest) |-> results[lowest[i]].name]]

\* The scoring data _handle_end_of_match collects for the active players.
PlayerResults(s) ==
  [p \in ActivePlayers(s) |->
     [name |-> s.name[p],
      card_count |-> Len(HandCards(s.hand[p])),
      total_points |-> SumPoints(HandCards(s.hand[p]))]]

\* An end of match that marks the winner and leaves the other players as they are.
HandleEndOfMatchKeepsLosers(s, io) ==
  LET v == DetermineWinner(PlayerResults(s), io, s.recall_called_by)
      s1 == [SetPhase(s, "game_ended") EXCEPT !.verdict = v]
  IN  IF v.is_tie
      THEN [s1 EXCEPT !.status =
              [p \in DOMAIN s.status |-> IF s.name[p] \in SeqToSet(v.winners)
                                         THEN "finished" ELSE s.status[p]]]
      ELSE [s1 EXCEPT !.status[v.winner_id] = "winner"]

\* GameRound::_handle_end_of_match. io: iteration order of player_results.
HandleEndOfMatch(s, io) ==
  LET v == DetermineWinner(PlayerResults(s), io, s.recall_called_by)
      s1 == [SetPhase(s, "game_ended") EXCEPT !.verdict = v]
  IN  IF v.is_tie
      THEN [s1 EXCEPT !.status =
              [p \in DOMAIN s.status |-> IF s.name[p] \in SeqToSet(v.winners)
                                         THEN "finished" ELSE s.status[p]]]
      ELSE [s1 EXCEPT !.status =
              [p \in DOMAIN s.status |-> IF p = v.winner_id THEN "winner" ELSE "finished"]]

(* ------------------------------------------------------------------ *)
(* Turn / phase engine                                                  *)
(* ------------------------------------------------------------------ *)

\* A start of turn that leaves the current player's status as it is.
StartTurnInternalKeepsStatus(s) ==
  LET s1 == [s EXCEPT !.same_rank_data = NoSameRankData, !.plays = <<>>,
                      !.special_card_data =
                         IF s.special_card_data # <<>> /\ s.phase # "special_play_window"
                         THEN <<>> ELSE s.special_card_data]
  IN  [s1 EXCEPT !.phase = "player_turn", !.trace = <<"player_turn">>]

\* GameRound::_start_turn_internal
StartTurnInternal(s) ==
  LET s1 == [s EXCEPT !.same_rank_data = NoSameRankData, !.plays = <<>>,
                      !.special_card_data =
                         IF s.special_card_data # <<>> /\ s.phase # "special_play_window"
                         THEN <<>> ELSE s.special_card_data]
      s2 == [s1 EXCEPT !.phase = "player_turn", !.trace = <<"player_turn">>]
  IN  IF s2.current_player_id \in DOMAIN s2.status
      THEN [s2 EXCEPT !.status[s2.current_player_id] = "drawing_card"]
      ELSE s2

\* A hand-over that never looks at the recall caller.
MoveToNextPlayerNoRecall(s0, io) ==
  LET active_player_ids == IterOrder(s0.order, ActivePlayers(s0))
      s == [s0 EXCEPT !.moved = [entered |-> TRUE, from |-> s0.current_player_id,
                                 n_active |-> Len(active_player_ids),
                                 active |-> active_player_ids, trace |-> s0.trace]]
      s1 == IF s.current_player_id \in DOMAIN s.status
            THEN [s EXCEPT !.status[s.current_player_id] = "ready"]
            ELSE s
      pos == Position(active_player_ids, s.current_player_id)
      current_index == IF pos = 0 THEN 0 ELSE pos - 1
      next_index == (current_index + 1) % Len(active_player_ids)
      s2 == [s1 EXCEPT !.current_player_id = active_player_ids[next_index + 1]]
  IN  IF active_player_ids = <<>> THEN s ELSE StartTurnInternal(s2)

\* A hand-over that compares the recall caller with the outgoing player.
MoveToNextPlayerChecksOutgoing(s0, io) ==
  LET active_player_ids == IterOrder(s0.order, ActivePlayers(s0))
      s == [s0 EXCEPT !.moved = [entered |-> TRUE, from |-> s0.current_player_id,
                                 n_active |-> Len(active_player_ids),
                                 active |-> active_player_ids, trace |-> s0.trace]]
      s1 == IF s.current_player_id \in DOMAIN s.status
            THEN [s EXCEPT !.status[s.current_player_id] = "ready"]
            ELSE s
      pos == Position(active_player_ids, s.current_player_id)
      current_index == IF pos = 0 THEN 0 ELSE pos - 1
      next_index == (current_index + 1) % Len(active_player_ids)
      s2 == [s1 EXCEPT !.current_player_id = active_player_ids[next_index + 1]]
  IN  IF active_player_ids = <<>> THEN s
      ELSE IF s.recall_called_by # NoPlayer
              /\ s.current_player_id = s.recall_called_by
      THEN HandleEndOfMatch(s2, io)
      ELSE StartTurnInternal(s2)

\* A hand-over that always selects the first active player.
MoveToNextPlayerFirstActive(s0, io) ==
  LET active_player_ids == IterOrder(s0.order, ActivePlayers(s0))
      s == [s0 EXCEPT !.moved = [entered |-> TRUE, from |-> s0.current_player_id,
                                 n_active |-> Len(active_player_ids),
                                 active |-> active_player_ids, trace |-> s0.trace]]
      s1 == IF s.current_player_id \in DOMAIN s.status
            THEN [s EXCEPT !.status[s.current_player_id] = "ready"]
            ELSE s
      s2 == [s1 EXCEPT !.current_player_id = active_player_ids[1]]
  IN  IF active_player_ids = <<>> THEN s
      ELSE IF s2.recall_called_by # NoPlayer
              /\ s2.current_player_id = s2.recall_called_by
      THEN HandleEndOfMatch(s2, io)
      ELSE StartTurnInternal(s2)

\* GameRound::_move_to_next_player
MoveToNextPlayer(s0, io) ==
  LET active_player_ids == IterOrder(s0.order, ActivePlayers(s0))
      s == [s0 EXCEPT !.moved = [entered |-> TRUE, from |-> s0.current_player_id,
                                 n_active |-> Len(active_player_ids),
                                 active |-> active_player_ids, trace |-> s0.trace]]
      s1 == IF s.current_player_id \in DOMAIN s.status
            THEN [s EXCEPT !.status[s.current_player_id] = "ready"]
            ELSE s
      pos == Position(active_player_ids, s.current_player_id)
      current_index == IF pos = 0 THEN 0 ELSE pos - 1
      next_index == (current_index + 1) % Len(active_player_ids)
      s2 == [s1 EXCEPT !.current_player_id = active_player_ids[next_index + 1]]
  IN  IF active_player_ids = <<>> THEN s
      ELSE IF s2.recall_called_by # NoPlayer
              /\ s2.current_player_id = s2.recall_called_by
      THEN HandleEndOfMatch(s2, io)
      ELSE StartTurnInternal(s2)

RECURSIVE ContinueTurnInternal(_, _)

\* A drain that sets the phase to ending_round once more after re-entering
\* continue_turn.
CheckPendingEventsEndsRoundAgain(s, io) ==
  IF s.pending_events = <<>>
  THEN SetPhase(s, "ending_round")
  ELSE SetPhase(ContinueTurnInternal([s EXCEPT !.pending_events = <<>>,
                                               !.drained = Len(s.pending_events)], io),
                "ending_round")

\* GameRound::_check_pending_events_before_ending_round (drained: the number
\* of events taken from the list, history only)
CheckPendingEvents(s, io) ==
  IF s.pending_events = <<>>
  THEN SetPhase(s, "ending_round")
  ELSE ContinueTurnInternal([s EXCEPT !.pending_events = <<>>,
                                      !.drained = Len(s.pending_events)], io)

\* GameRound::_continue_turn_internal
ContinueTurnInternal(s, io) ==
  LET s1 == IF s.phase = "turn_pending_events" THEN CheckPendingEvents(s, io) ELSE s
  IN  IF s1.phase = "ending_round" THEN MoveToNextPlayer(s1, io) ELSE s1

\* GameRound::_end_special_cards_window
EndSpecialCardsWindow(s, io) ==
  ContinueTurnInternal(
    SetPhase([s EXCEPT !.special_card_timer = FALSE, !.special_due = FALSE,
                       !.special_card_data = <<>>, !.special_card_players = <<>>],
             "turn_pending_events"), io)

\* GameRound::_process_next_special_card
ProcessNextSpecialCard(s, io) ==
  IF s.special_card_players = <<>>
  THEN EndSpecialCardsWindow(s, io)
  ELSE LET special_data == s.special_card_players[1]
           player_id == special_data.player_id
           s1 == IF player_id \notin Players THEN s
                 ELSE CASE special_data.special_power = "jack_swap" ->
                             [s EXCEPT !.status[player_id] = "jack_swap"]
                        [] special_data.special_power = "queen_peek" ->
                             [s EXCEPT !.status[player_id] = "queen_peek"]
                        [] OTHER ->
                             [s EXCEPT !.special_card_players = Tail(s.special_card_players)]
       IN  [s1 EXCEPT !.special_card_timer = TRUE, !.special_due = TRUE]

\* An expiry that leaves the head entry in the queue.
OnSpecialCardTimerExpiredKeepsHead(s, io) == ProcessNextSpecialCard(s, io)

\* GameRound::_on_special_card_timer_expired
OnSpecialCardTimerExpired(s, io) ==
  LET s1 == IF s.special_card_players # <<>>
            THEN LET player_id == s.special_card_players[1].player_id
                     s0 == IF player_id \in Players
                           THEN [s EXCEPT !.status[player_id] = "waiting"] ELSE s
                 IN  [s0 EXCEPT !.special_card_players = Tail(s.special_card_players)]
            ELSE s
  IN  ProcessNextSpecialCard(s1, io)

\* GameRound::_handle_special_cards_window
HandleSpecialCardsWindow(s, io) ==
  IF s.special_card_data = <<>>
  THEN ContinueTurnInternal(SetPhase(s, "ending_round"), io)
  ELSE ProcessNextSpecialCard(
         [SetPhase(s, "special_play_window") EXCEPT
            !.special_card_players = s.special_card_data], io)

\* A closing of the window that never looks for an empty hand.
EndSameRankWindowNoWinCheck(s, io) ==
  HandleSpecialCardsWindow(
    [SetActiveStatus(s, "waiting") EXCEPT !.same_rank_data = NoSameRankData,
                                        !.plays = <<>>], io)

\* GameRound::_end_same_rank_window
EndSameRankWindow(s, io) ==
  LET s1 == SetActiveStatus(s, "waiting")
  IN  IF \E p \in ActivePlayers(s1) : HandCards(s1.hand[p]) = <<>>
      THEN HandleEndOfMatch(s1, io)
      ELSE HandleSpecialCardsWindow([s1 EXCEPT !.same_rank_data = NoSameRankData, !.plays = <<>>], io)

\* GameRound::_start_same_rank_timer
StartSameRankTimer(s) == [s EXCEPT !.same_rank_timer = TRUE, !.same_rank_due = TRUE]

\* GameRound::_handle_same_rank_window
HandleSameRankWindow(s) ==
  StartSameRankTimer(SetActiveStatus(SetPhase(s, "same_rank_window"), "same_rank_window"))

(* ------------------------------------------------------------------ *)
(* Action handlers                                                      *)
(* ------------------------------------------------------------------ *)

\* return false on a failed validation
Reject(s) == [s EXCEPT !.ok = FALSE, !.why = "validation"]

\* A draw that hands out the top card and leaves it on the pile.
HandleDrawFromPileKeepsPile(s, player_id, source) ==
  IF source # "deck" /\ source # "discard" THEN Reject(s)
  ELSE LET pile == IF source = "deck" THEN s.draw_pile ELSE s.discard_pile
       IN  IF pile = <<>> THEN Reject(s)
           ELSE [s EXCEPT !.hand[player_id] = add_card_to_hand(s.hand[player_id], Top(pile)),
                          !.drawn_card[player_id] = Top(pile),
                          !.status[player_id] = "playing_card"]

\* GameRound::_handle_draw_from_pile
HandleDrawFromPile(s, player_id, source) ==
  IF source # "deck" /\ source # "discard" THEN Reject(s)
  ELSE LET pile == IF source = "deck" THEN s.draw_pile ELSE s.discard_pile
       IN  IF pile = <<>> THEN Reject(s)
           ELSE LET c == Top(pile)
                    s1 == IF source = "deck"
                          THEN [s EXCEPT !.draw_pile = Front(pile)]
                          ELSE [s EXCEPT !.discard_pile = Front(pile)]
                IN  [s1 EXCEPT !.hand[player_id] = add_card_to_hand(s.hand[player_id], c),
                               !.drawn_card[player_id] = c,
                               !.status[player_id] = "playing_card"]

\* GameRound::_check_special_card
CheckSpecialCard(s, player_id, card_id, card_rank) ==
  CASE card_rank = "jack" ->
         [s EXCEPT !.special_card_data = Append(@,
            [player_id |-> player_id, card_id |-> card_id, special_power |-> "jack_swap"])]
    [] card_rank = "queen" ->
         [s EXCEPT !.special_card_data = Append(@,
            [player_id |-> player_id, card_id |-> card_id, special_power |-> "queen_peek"])]
    [] OTHER -> s

\* The hand after the drawn card is moved to the slot of the played card
\* (_handle_play_card, "Handle drawn card repositioning"): removed is the hand
\* with the played card taken out, card_index the index of the played card,
\* original_index the index of the drawn card.
RepositionDrawnCard(removed, card_index, original_index, drawn) ==
  LET h == VecRemove(removed, original_index)
  IN  IF card_index - 1 < Len(h) THEN VecInsert(h, card_index, drawn) ELSE Append(h, drawn)

\* GameRound::_handle_play_card
HandlePlayCard(s, player_id, card_id) ==
  LET h == s.hand[player_id]
      card_index == IF card_id = NoCard THEN 0 ELSE Position(h, card_id)
      drawn == s.drawn_card[player_id]
      drawn_card_original_index ==
        IF drawn # NoCard /\ drawn # card_id THEN Position(h, drawn) ELSE 0
      removed == remove_card_from_hand(h, card_id)
      s1 == [s EXCEPT !.hand[player_id] = removed,
                      !.discard_pile = Append(@, card_id)]
      s2 == IF drawn # NoCard /\ drawn_card_original_index # 0
            THEN [s1 EXCEPT
                    !.hand[player_id] =
                       RepositionDrawnCard(removed, card_index,
                                           drawn_card_original_index, drawn),
                    !.drawn_card[player_id] = NoCard]
            ELSE s1
  IN  IF card_index = 0 THEN Reject(s)
      ELSE CheckSpecialCard(s2, player_id, card_id, RankToString(RankOf(card_id)))

\* A validation without the special case of a discard pile of one card.
ValidateSameRankPlayNoSeed(s, card_rank) ==
  IF s.discard_pile = <<>> THEN FALSE
  ELSE ToLowercase(card_rank) = ToLowercase(RankToString(RankOf(Top(s.discard_pile))))

\* GameRound::_validate_same_rank_play
ValidateSameRankPlay(s, card_rank) ==
  IF s.discard_pile = <<>> THEN FALSE
  ELSE IF Len(s.discard_pile) = 1 THEN TRUE
  ELSE ToLowercase(card_rank) = ToLowercase(RankToString(RankOf(Top(s.discard_pile))))

\* GameRound::_apply_same_rank_penalty
ApplySameRankPenalty(s, player_id) ==
  IF s.draw_pile = <<>> THEN s
  ELSE [s EXCEPT !.draw_pile = Front(@),
                 !.hand[player_id] = add_card_to_hand(@, Top(s.draw_pile)),
                 !.status[player_id] = "waiting",
                 !.penalty = Top(s.draw_pile)]

\* GameRound::_handle_same_rank_play
HandleSameRankPlay(s, user_id, card_id) ==
  LET h == s.hand[user_id]
      found == card_id # NoCard /\ Position(h, card_id) # 0
      card_rank == RankToString(RankOf(card_id))
      s1 == [s EXCEPT !.hand[user_id] = remove_card_from_hand(h, card_id),
                      !.discard_pile = Append(@, card_id)]
      s2 == CheckSpecialCard(s1, user_id, card_id, card_rank)
  IN  IF ~found THEN Reject(s)
      ELSE IF ~ValidateSameRankPlay(s, card_rank)
      THEN [ApplySameRankPenalty(s, user_id) EXCEPT !.ok = FALSE, !.why = "mismatch"]
      ELSE [s2 EXCEPT !.same_rank_data[user_id] =
              [card_id |-> card_id, play_order |-> MapLen(s.same_rank_data) + 1],
                      !.plays = Append(@, MapLen(s.same_rank_data) + 1)]

\* A swap that copies the second card over the first and leaves the second
\* slot as it is.
HandleJackSwapOneWay(s, user_id, first_card_id, first_player_id, second_card_id, second_player_id) ==
  IF first_card_id = NoCard \/ first_player_id = NoPlayer
     \/ second_card_id = NoCard \/ second_player_id = NoPlayer
  THEN Reject(s)
  ELSE IF first_player_id \notin Players \/ second_player_id \notin Players
  THEN Reject(s)
  ELSE LET first_card_index == Position(s.hand[first_player_id], first_card_id)
           second_card_index == Position(s.hand[second_player_id], second_card_id)
       IN  IF first_card_index = 0 \/ second_card_index = 0 THEN Reject(s)
           ELSE [s EXCEPT !.hand[first_player_id][first_card_index] = second_card_id]

\* GameRound::_handle_jack_swap
HandleJackSwap(s, user_id, first_card_id, first_player_id, second_card_id, second_player_id) ==
  IF first_card_id = NoCard \/ first_player_id = NoPlayer
     \/ second_card_id = NoCard \/ second_player_id = NoPlayer
  THEN Reject(s)
  ELSE IF first_player_id \notin Players \/ second_player_id \notin Players
  THEN Reject(s)
  ELSE LET first_card_index == Position(s.hand[first_player_id], first_card_id)
           second_card_index == Position(s.hand[second_player_id], second_card_id)
           s1 == [s EXCEPT !.hand[first_player_id][first_card_index] = second_card_id]
       IN  IF first_card_index = 0 \/ second_card_index = 0 THEN Reject(s)
           ELSE [s1 EXCEPT !.hand[second_player_id][second_card_index] = first_card_id]

\* A peek that adds the card to the buffer without clearing it first.
HandleQueenPeekKeepsBuffer(s, user_id, card_id, owner_id) ==
  IF card_id = NoCard \/ owner_id = NoPlayer THEN Reject(s)
  ELSE IF owner_id \notin Players THEN Reject(s)
  ELSE IF Position(s.hand[owner_id], card_id) = 0 THEN Reject(s)
  ELSE [s EXCEPT !.cards_to_peek[user_id] = Append(@, card_id),
                 !.status[user_id] = "peeking"]

\* GameRound::_handle_queen_peek
HandleQueenPeek(s, user_id, card_id, owner_id) ==
  IF card_id = NoCard \/ owner_id = NoPlayer THEN Reject(s)
  ELSE IF owner_id \notin Players THEN Reject(s)
  ELSE IF Position(s.hand[owner_id], card_id) = 0 THEN Reject(s)
  ELSE [s EXCEPT !.cards_to_peek[user_id] = <<card_id>>,
                 !.status[user_id] = "peeking"]

(* ------------------------------------------------------------------ *)
(* Dispatcher                                                           *)
(* ------------------------------------------------------------------ *)

\* GameRound::_build_action_data: the fields of a request the handlers read,
\* all absent.
NoData ==
  [action |-> "", card_id |-> NoCard, source |-> "",
   first_card_id |-> NoCard, first_player_id |-> NoPlayer,
   second_card_id |-> NoCard, second_player_id |-> NoPlayer, ownerId |-> NoPlayer]

\* GameRound::_route_action
RouteAction(s, user_id, d) ==
  CASE d.action = "draw_from_deck" -> HandleDrawFromPile(s, user_id, d.source)
    [] d.action = "play_card" ->
         LET r == HandlePlayCard(s, user_id, d.card_id)
         IN  [HandleSameRankWindow(r) EXCEPT !.ok = r.ok]
    [] d.action = "same_rank_play" -> HandleSameRankPlay(s, user_id, d.card_id)
    [] d.action \in {"discard_card", "take_from_discard", "call_recall"} -> s
    [] d.action = "jack_swap" ->
         HandleJackSwap(s, user_id, d.first_card_id, d.first_player_id,
                        d.second_card_id, d.second_player_id)
    [] d.action = "queen_peek" -> HandleQueenPeek(s, user_id, d.card_id, d.ownerId)
    [] OTHER -> Reject(s)

\* GameRound::on_player_action; t is the reading of the clock.
OnPlayerAction(s, session_id, d, t) ==
  IF d.action = "" THEN Reject(s)
  ELSE IF session_id \notin DOMAIN s.status THEN Reject(s)
  ELSE LET r == RouteAction(s, session_id, d)
       IN  IF r.ok THEN [r EXCEPT !.last_action_time = t] ELSE r

(* ------------------------------------------------------------------ *)
(* The table after the deal                                             *)
(* ------------------------------------------------------------------ *)

\* The hands and the draw pile the deal leaves (top of the pile last).
InitHand == [p \in Players |-> IF p = "A" THEN <<1, 2>> ELSE <<3, 4>>]
InitDrawPile == <<5, 6>>

NoLast ==
  [op |-> "none", who |-> NoPlayer, session |-> NoSession, ok |-> TRUE, why |-> "",
   card |-> NoCard,
   penalty |-> NoCard, moved |-> NotMoved, drained |-> 0]

\* The pending event the engine knows (pending_events is a public field of
\* the round; its entries are pushed by the host).
QueenPeekPause == [type |-> "queen_peek_pause", player_id |-> "A"]

\* A dealt table whose first turn has started: the first player of the map is
\* the current player (start_game) with status drawing_card (start_turn); any
\* other player may have been marked disconnected (Player::set_status); every
\* player joined with a session id equal to the player id. The
\* recall marker is part of the table the round is built on (GameRound::new
\* takes the GameState; from_dict restores recall_called_by). The host may
\* have left an event pending.
Init ==
  /\ order \in Orders
  /\ recall_called_by \in Players \cup {NoPlayer}
  /\ phase = "player_turn"
  /\ current_player_id = order[1]
  /\ \E gone \in SUBSET (Players \ {order[1]}) :
       status = [p \in Players |-> IF p = order[1] THEN "drawing_card"
                                   ELSE IF p \in gone THEN "disconnected"
                                   ELSE "waiting"]
  /\ hand = InitHand
  /\ drawn_card = [p \in Players |-> NoCard]
  /\ cards_to_peek = [p \in Players |-> <<>>]
  /\ is_active = [p \in Players |-> TRUE]
  /\ name = [p \in Players |-> p]
  /\ draw_pile = InitDrawPile
  /\ discard_pile = <<>>
  /\ pending_draws = [p \in Players |-> NoCard]
  /\ last_action_time = 0
  /\ same_rank_data = NoSameRankData
  /\ special_card_data = <<>>
  /\ special_card_players = <<>>
  /\ same_rank_timer = FALSE
  /\ special_card_timer = FALSE
  /\ pending_events \in {<<>>, <<QueenPeekPause>>}
  /\ player_sessions = [p \in Players |-> p]
  /\ session_players = [p \in Players |-> p]
  /\ game_started = TRUE
  /\ min_players = Cardinality(Players)
  /\ same_rank_due = FALSE
  /\ special_due = FALSE
  /\ quiet = FALSE
  /\ ticks = NoTicks
  /\ advances = <<>>
  /\ now = 1
  /\ stray = 0
  /\ trace = <<"player_turn">>
  /\ plays = <<>>
  /\ verdict = NoVerdict
  /\ last = NoLast

(* ------------------------------------------------------------------ *)
(* Events                                                               *)
(* ------------------------------------------------------------------ *)

\* p holds card c.
Holds(p, c) == c # NoCard /\ c \in SeqToSet(hand[p])

\* An event may be served: the clock is within the bound, and a request
\* outside the protocol of play is within the bound on those.
MayServe(in_protocol) == now <= MaxSteps /\ (in_protocol \/ stray < MaxStray)

\* One serialized event took the table to r.
Served(r, op, who, card, in_protocol) ==
  /\ Commit(r)
  /\ now' = now + 1
  /\ stray' = IF in_protocol THEN stray ELSE stray + 1
  /\ last' = [op |-> op, who |-> who, session |-> who, ok |-> r.ok, why |-> r.why,
              card |-> IF r.why = "validation" THEN NoCard ELSE card,
              penalty |-> r.penalty, moved |-> r.moved, drained |-> r.drained]

\* The cards a request may name for a slot of p's hand: the cards p holds,
\* a card p does not hold, and no card at all.
Nameable(p) ==
  (SeqToSet(hand[p]) \ {NoCard}) \cup {NoCard}
    \cup (IF discard_pile # <<>> THEN {Top(discard_pile)} ELSE {InitDrawPile[1]})

\* on_player_action with tag draw_from_deck. In the protocol of play the
\* current player draws, once, at the start of the turn.
DrawFromDeck ==
  \E p \in Players, source \in {"deck", "discard", "hand"} :
    LET in_protocol == /\ phase = "player_turn" /\ p = current_player_id
                       /\ status[p] = "drawing_card" /\ source # "hand"
    IN  /\ MayServe(in_protocol)
        /\ Served(OnPlayerAction(Cur, p,
                    [NoData EXCEPT !.action = "draw_from_deck", !.source = source], now),
                  "draw_from_deck", p, NoCard, in_protocol)

\* on_player_action with tag play_card. In the protocol of play the current
\* player plays a card of the hand after drawing.
PlayCard ==
  \E p \in Players :
    \E c \in Nameable(p) :
      LET in_protocol == /\ phase = "player_turn" /\ p = current_player_id
                         /\ status[p] = "playing_card" /\ Holds(p, c)
      IN  /\ MayServe(in_protocol)
          /\ Served(OnPlayerAction(Cur, p,
                      [NoData EXCEPT !.action = "play_card", !.card_id = c], now),
                    "play_card", p, c, in_protocol)

\* on_player_action with tag same_rank_play. In the protocol of play any
\* active player offers a card of the hand while the window is open.
SameRankPlay ==
  \E p \in Players :
    \E c \in Nameable(p) :
      LET in_protocol == /\ phase = "same_rank_window" /\ IsActive(Cur, p)
                         /\ Holds(p, c)
      IN  /\ MayServe(in_protocol)
          /\ Served(OnPlayerAction(Cur, p,
                      [NoData EXCEPT !.action = "same_rank_play", !.card_id = c], now),
                    "same_rank_play", p, c, in_protocol)

\* on_player_action with tag jack_swap. In the protocol of play the player
\* whose jack is being handled swaps two held cards.
JackSwap ==
  \E p \in Players, fp \in Players, sp \in Players \cup {Outsider} :
    \E fc \in Nameable(fp), sc \in Nameable(IF sp = Outsider THEN p ELSE sp) :
      LET in_protocol == /\ phase = "special_play_window" /\ status[p] = "jack_swap"
                         /\ sp \in Players /\ Holds(fp, fc) /\ Holds(sp, sc)
      IN  /\ MayServe(in_protocol)
          /\ Served(OnPlayerAction(Cur, p,
                      [NoData EXCEPT !.action = "jack_swap",
                                     !.first_card_id = fc, !.first_player_id = fp,
                                     !.second_card_id = sc, !.second_player_id = sp], now),
                    "jack_swap", p, fc, in_protocol)

\* on_player_action with tag queen_peek. In the protocol of play the player
\* whose queen is being handled looks at one held card.
QueenPeek ==
  \E p \in Players, owner \in Players \cup {NoPlayer, Outsider} :
    \E c \in Nameable(IF owner \in Players THEN owner ELSE p) :
      LET in_protocol == /\ phase = "special_play_window" /\ status[p] = "queen_peek"
                         /\ owner \in Players /\ Holds(owner, c)
      IN  /\ MayServe(in_protocol)
          /\ Served(OnPlayerAction(Cur, p,
                      [NoData EXCEPT !.action = "queen_peek", !.card_id = c,
                                     !.ownerId = owner], now),
                    "queen_peek", p, c, in_protocol)

\* on_player_action with a reserved tag (discard_card, take_from_discard,
\* call_recall), an unknown tag or no tag
OtherAction ==
  \E p \in Players, tag \in {"call_recall", "discard_card", "shuffle", ""} :
    /\ MayServe(FALSE)
    /\ Served(OnPlayerAction(Cur, p, [NoData EXCEPT !.action = tag], now),
              tag, p, NoCard, FALSE)

\* on_player_action from a session that is no player of the table
OutsiderAction ==
  \E tag \in {"play_card", "draw_from_deck"} :
    /\ MayServe(FALSE)
    /\ Served(OnPlayerAction(Cur, Outsider,
                [NoData EXCEPT !.action = tag, !.card_id = 1, !.source = "deck"], now),
              tag, Outsider, NoCard, FALSE)

\* The same-rank timer fires: the scheduler calls _end_same_rank_window.
SameRankTimerExpired ==
  /\ MayServe(TRUE)
  /\ same_rank_due
  /\ \E io \in Orders :
       Served(EndSameRankWindow([Cur EXCEPT !.same_rank_due = FALSE], io),
              "same_rank_timer", NoPlayer, NoCard, TRUE)

\* The special-card timer fires: the scheduler calls _on_special_card_timer_expired.
SpecialCardTimerExpired ==
  /\ MayServe(TRUE)
  /\ special_due
  /\ \E io \in Orders :
       Served(OnSpecialCardTimerExpired([Cur EXCEPT !.special_due = FALSE], io),
              "special_card_timer", NoPlayer, NoCard, TRUE)

Next ==
  \/ DrawFromDeck
  \/ PlayCard
  \/ SameRankPlay
  \/ JackSwap
  \/ QueenPeek
  \/ OtherAction
  \/ OutsiderAction
  \/ SameRankTimerExpired
  \/ SpecialCardTimerExpired

Spec == Init /\ [][Next]_vars

(* ------------------------------------------------------------------ *)
(* Play that falls quiet, with timers that fire                         *)
(* ------------------------------------------------------------------ *)

\* Number of player actions served before the players fall silent.
MaxBusy == 4

\* A player action arrives.
PlayerAction ==
  /\ ~quiet
  /\ now <= MaxBusy
  /\ \/ DrawFromDeck
     \/ PlayCard
     \/ SameRankPlay
     \/ JackSwap
     \/ QueenPeek
     \/ OtherAction
     \/ OutsiderAction

\* While the same-rank window is open the players fall silent: from here on no
\* player action arrives.
Quiesce ==
  /\ ~quiet
  /\ phase = "same_rank_window"
  /\ Commit([Cur EXCEPT !.quiet = TRUE])
  /\ UNCHANGED << now, stray, last >>

\* A timer callback took the table to r; the clock of player actions stands.
Fired(r, op) ==
  /\ Commit(r)
  /\ UNCHANGED << now, stray >>
  /\ last' = [op |-> op, who |-> NoPlayer, session |-> NoPlayer, ok |-> r.ok,
              why |-> r.why, card |-> NoCard, penalty |-> r.penalty,
              moved |-> r.moved, drained |-> r.drained]

\* The armed same-rank timer fires, however many actions were served before.
SameRankTimerFires ==
  /\ same_rank_due
  /\ \E io \in Orders :
       Fired(EndSameRankWindow([Cur EXCEPT !.same_rank_due = FALSE,
                                           !.ticks.same_rank = ~@], io),
             "same_rank_timer")

\* The armed special-card timer fires, however many actions were served before.
SpecialCardTimerFires ==
  /\ special_due
  /\ \E io \in Orders :
       Fired(OnSpecialCardTimerExpired([Cur EXCEPT !.special_due = FALSE,
                                                   !.ticks.special = ~@], io),
             "special_card_timer")

NextProgress ==
  \/ PlayerAction
  \/ Quiesce
  \/ SameRankTimerFires
  \/ SpecialCardTimerFires

\* The steps that deliver a callback, told by the scheduler's variables alone:
\* SameRankTimerFires and SpecialCardTimerFires are the only steps that flip a
\* bit of ticks, they are enabled exactly when the timer is armed, and each
\* flips its bit.
SameRankDelivery == same_rank_due /\ ticks' = [ticks EXCEPT !.same_rank = ~@]
SpecialDelivery == special_due /\ ticks' = [ticks EXCEPT !.special = ~@]

\* Every armed timer eventually fires.
SpecProgress ==
  /\ Init
  /\ [][NextProgress]_vars
  /\ WF_ticks(SameRankDelivery)
  /\ WF_ticks(SpecialDelivery)

(* ------------------------------------------------------------------ *)
(* The winner resolver on its own                                       *)
(* ------------------------------------------------------------------ *)

\* The cards a player may be left holding when the round ends.
ResolverCards == [p \in Players |-> IF p = "A" THEN {1, 2, 5} ELSE {3, 4, 6}]

\* The hands of at most MaxHand slots over cs, each slot a card or a hole,
\* no card twice.
ResolverHands(cs) ==
  { h \in UNION { [1..n -> cs \cup {NoCard}] : n \in 0..MaxHand } :
      \A i, j \in DOMAIN h : (i # j /\ h[i] # NoCard) => h[i] # h[j] }

\* A table at the end of a round: any hands, any players disconnected, any
\* recall caller.
InitResolver ==
  /\ order \in Orders
  /\ recall_called_by \in Players \cup {NoPlayer}
  /\ phase = "ending_round"
  /\ current_player_id = order[1]
  /\ status \in [Players -> {"waiting", "disconnected"}]
  /\ hand \in [Players -> UNION { ResolverHands(ResolverCards[p]) : p \in Players }]
  /\ \A p \in Players : hand[p] \in ResolverHands(ResolverCards[p])
  /\ drawn_card = [p \in Players |-> NoCard]
  /\ cards_to_peek = [p \in Players |-> <<>>]
  /\ is_active = [p \in Players |-> TRUE]
  /\ name = [p \in Players |-> p]
  /\ draw_pile = <<>>
  /\ discard_pile = <<>>
  /\ pending_draws = [p \in Players |-> NoCard]
  /\ last_action_time = 0
  /\ same_rank_data = NoSameRankData
  /\ special_card_data = <<>>
  /\ special_card_players = <<>>
  /\ same_rank_timer = FALSE
  /\ special_card_timer = FALSE
  /\ pending_events = <<>>
  /\ player_sessions = [p \in DOMAIN status |-> p]
  /\ session_players = [p \in DOMAIN status |-> p]
  /\ game_started = TRUE
  /\ min_players = Cardinality(Players)
  /\ same_rank_due = FALSE
  /\ special_due = FALSE
  /\ quiet = FALSE
  /\ ticks = NoTicks
  /\ advances = <<>>
  /\ now = 1
  /\ stray = 0
  /\ trace = <<"ending_round">>
  /\ plays = <<>>
  /\ verdict = NoVerdict
  /\ last = NoLast

\* One invocation of _determine_winner on the scoring data of the table; the
\* table itself is left as it is, so that the next invocation has the same
\* inputs. io: the iteration order of this invocation's player_results map.
Resolve ==
  /\ \E io \in Orders :
       verdict' = DetermineWinner(PlayerResults(Cur), io, recall_called_by)
  /\ last' = [NoLast EXCEPT !.op = "resolve"]
  /\ UNCHANGED << phase, status, hand, drawn_card, cards_to_peek, is_active, name,
                  order, draw_pile, discard_pile, pending_draws, current_player_id,
                  recall_called_by, last_action_time, same_rank_data,
                  special_card_data, special_card_players, same_rank_timer,
                  special_card_timer, pending_events, player_sessions,
                  session_players, game_started, min_players, same_rank_due,
                  special_due, quiet, ticks, advances, now, stray, trace, plays >>

NextResolver == Resolve

SpecResolver == InitResolver /\ [][NextResolver]_vars

(* ------------------------------------------------------------------ *)
(* The end of a match on its own                                        *)
(* ------------------------------------------------------------------ *)

\* A table of three players.
MatchPlayers == {"A", "B", "C"}

\* The orders in which a HashMap over the three players may be iterated.
MatchOrders == {o \in [1..Cardinality(MatchPlayers) -> MatchPlayers] : SeqToSet(o) = MatchPlayers}

\* The hands a player of the match may be left holding: no slot, one card,
\* two cards, a hole and a card.
MatchHands(p) ==
  LET c == CASE p = "A" -> <<1, 2>> [] p = "B" -> <<3, 4>> [] OTHER -> <<6, 5>>
  IN  { <<>>, <<c[1]>>, <<c[1], c[2]>>, <<NoCard, c[2]>> }

\* The display names of the three players: any two may be the same string
\* (Player::new takes the name from the caller; add_player keys on the id).
MatchNames ==
  { n \in [MatchPlayers -> {"n1", "n2", "n3"}] :
      /\ n["A"] = "n1"
      /\ n["B"] \in {"n1", "n2"} }

\* A table at the end of a round: any hands, any players disconnected, any
\* recall caller, any display names.
InitMatch ==
  /\ order \in MatchOrders
  /\ recall_called_by \in MatchPlayers \cup {NoPlayer}
  /\ phase = "ending_round"
  /\ current_player_id = order[1]
  /\ status \in [MatchPlayers -> {"waiting", "disconnected"}]
  /\ hand \in [MatchPlayers -> UNION { MatchHands(p) : p \in MatchPlayers }]
  /\ \A p \in MatchPlayers : hand[p] \in MatchHands(p)
  /\ drawn_card = [p \in MatchPlayers |-> NoCard]
  /\ cards_to_peek = [p \in MatchPlayers |-> <<>>]
  /\ is_active = [p \in MatchPlayers |-> TRUE]
  /\ name \in MatchNames
  /\ draw_pile = <<>>
  /\ discard_pile = <<>>
  /\ pending_draws = [p \in MatchPlayers |-> NoCard]
  /\ last_action_time = 0
  /\ same_rank_data = [p \in MatchPlayers |-> NoPlay]
  /\ special_card_data = <<>>
  /\ special_card_players = <<>>
  /\ same_rank_timer = FALSE
  /\ special_card_timer = FALSE
  /\ pending_events = <<>>
  /\ player_sessions = [p \in DOMAIN status |-> p]
  /\ session_players = [p \in DOMAIN status |-> p]
  /\ game_started = TRUE
  /\ min_players = Cardinality(Players)
  /\ same_rank_due = FALSE
  /\ special_due = FALSE
  /\ quiet = FALSE
  /\ ticks = NoTicks
  /\ advances = <<>>
  /\ now = 1
  /\ stray = 0
  /\ trace = <<"ending_round">>
  /\ plays = <<>>
  /\ verdict = NoVerdict
  /\ last = NoLast

\* One invocation of _handle_end_of_match on the table. io: the iteration
\* order of this invocation's player_results map.
EndOfMatch ==
  /\ phase # "game_ended"
  /\ \E io \in MatchOrders : Commit(HandleEndOfMatch(Cur, io))
  /\ last' = [NoLast EXCEPT !.op = "end_of_match"]
  /\ UNCHANGED << now, stray >>

NextMatch == EndOfMatch

SpecMatch == InitMatch /\ [][NextMatch]_vars

(* ------------------------------------------------------------------ *)
(* The hand-over of the turn on its own                                 *)
(* ------------------------------------------------------------------ *)

\* The number of hand-overs run in a row.
MaxAdvances == 4

\* A full hand for each player of the table of three.
AdvanceHand(p) == CHOOSE h \in MatchHands(p) : Len(h) = 2 /\ NoCard \notin SeqToSet(h)

\* A table of three at the end of a round: any players disconnected, any
\* recall caller, the pointer on any player or unset.
InitAdvance ==
  /\ order \in MatchOrders
  /\ recall_called_by \in MatchPlayers \cup {NoPlayer}
  /\ phase = "ending_round"
  /\ current_player_id \in MatchPlayers \cup {NoPlayer}
  /\ status \in [MatchPlayers -> {"waiting", "disconnected"}]
  /\ hand = [p \in MatchPlayers |-> AdvanceHand(p)]
  /\ drawn_card = [p \in MatchPlayers |-> NoCard]
  /\ cards_to_peek = [p \in MatchPlayers |-> <<>>]
  /\ is_active = [p \in MatchPlayers |-> TRUE]
  /\ name = [p \in MatchPlayers |-> p]
  /\ draw_pile = <<>>
  /\ discard_pile = <<>>
  /\ pending_draws = [p \in MatchPlayers |-> NoCard]
  /\ last_action_time = 0
  /\ same_rank_data = [p \in MatchPlayers |-> NoPlay]
  /\ special_card_data = <<>>
  /\ special_card_players = <<>>
  /\ same_rank_timer = FALSE
  /\ special_card_timer = FALSE
  /\ pending_events = <<>>
  /\ player_sessions = [p \in DOMAIN status |-> p]
  /\ session_players = [p \in DOMAIN status |-> p]
  /\ game_started = TRUE
  /\ min_players = Cardinality(Players)
  /\ same_rank_due = FALSE
  /\ special_due = FALSE
  /\ quiet = FALSE
  /\ ticks = NoTicks
  /\ advances = <<>>
  /\ now = 1
  /\ stray = 0
  /\ trace = <<"ending_round">>
  /\ plays = <<>>
  /\ verdict = NoVerdict
  /\ last = NoLast

\* One invocation of _move_to_next_player on the table as the invocation
\* before left it. io: the iteration order of the player_results map should
\* the invocation end the match. The history keeps the active players the
\* invocation found and left, and whether it ended the match.
Advance ==
  /\ Len(advances) < MaxAdvances
  /\ \E io \in MatchOrders :
       LET r == MoveToNextPlayer(Cur, io)
       IN  Fired([r EXCEPT !.advances =
                     Append(advances,
                            [on_entry |-> ActivePlayers(Cur),
                             on_return |-> ActivePlayers(r),
                             ended |-> r.moved.n_active > 0 /\ r.phase = "game_ended"])],
                 "move_to_next_player")

NextAdvance == Advance

SpecAdvance == InitAdvance /\ [][NextAdvance]_vars

(* ------------------------------------------------------------------ *)
(* Joining the table                                                    *)
(* ------------------------------------------------------------------ *)

\* GameState.max_players of the table.
MaxPlayers == 2

\* The session ids players join with: a fresh string, and a string that is
\* also the id of player B.
LobbySessions == {"s1", "B"}

\* Player::new: the hand of four empty slots.
NewHand == <<NoCard, NoCard, NoCard, NoCard>>

\* HashMap::insert
Put(f, k, v) == [x \in DOMAIN f \cup {k} |-> IF x = k THEN v ELSE f[x]]

\* The orders in which a HashMap with the keys S may be iterated.
OrdersOf(S) == {o \in [1..Cardinality(S) -> S] : SeqToSet(o) = S}

\* GameState::new and GameRound::new on it.
InitLobby ==
  /\ order = <<>>
  /\ recall_called_by = NoPlayer
  /\ phase = "waiting_for_players"
  /\ current_player_id = NoPlayer
  /\ status = <<>>
  /\ hand = <<>>
  /\ drawn_card = <<>>
  /\ cards_to_peek = <<>>
  /\ is_active = <<>>
  /\ name = <<>>
  /\ draw_pile = <<>>
  /\ discard_pile = <<>>
  /\ pending_draws = [p \in Players |-> NoCard]
  /\ last_action_time = 0
  /\ same_rank_data = NoSameRankData
  /\ special_card_data = <<>>
  /\ special_card_players = <<>>
  /\ same_rank_timer = FALSE
  /\ special_card_timer = FALSE
  /\ pending_events = <<>>
  /\ player_sessions = <<>>
  /\ session_players = <<>>
  /\ game_started = FALSE
  /\ min_players = Cardinality(Players)
  /\ same_rank_due = FALSE
  /\ special_due = FALSE
  /\ quiet = FALSE
  /\ ticks = NoTicks
  /\ advances = <<>>
  /\ now = 1
  /\ stray = 0
  /\ trace = <<"waiting_for_players">>
  /\ plays = <<>>
  /\ verdict = NoVerdict
  /\ last = NoLast

\* GameState::add_player(Player::new(p, p, ..), session). o: the order in
\* which the players map is iterated after the insert (unchanged when the key
\* was already there); keys().last() is its last element.
AddPlayerToTable(s, p, session, o) ==
  IF Cardinality(DOMAIN s.status) >= MaxPlayers THEN Reject(s)
  ELSE LET s1 == [s EXCEPT !.status = Put(s.status, p, "waiting"),
                           !.hand = Put(s.hand, p, NewHand),
                           !.drawn_card = Put(s.drawn_card, p, NoCard),
                           !.cards_to_peek = Put(s.cards_to_peek, p, <<>>),
                           !.is_active = Put(s.is_active, p, TRUE),
                           !.name = Put(s.name, p, p),
                           !.order = o]
       IN  IF session = NoSession THEN s1
           ELSE [s1 EXCEPT !.player_sessions = Put(s.player_sessions, Top(o), session),
                           !.session_players = Put(s.session_players, session, Top(o))]

\* A player joins, with or without a session.
AddPlayer ==
  \E p \in Players, session \in LobbySessions \cup {NoSession} :
    \E o \in IF p \in DOMAIN status THEN {order} ELSE OrdersOf(DOMAIN status \cup {p}) :
      /\ now <= MaxSteps
      /\ LET r == AddPlayerToTable(Cur, p, session, o)
         IN  /\ Commit(r)
             /\ last' = [NoLast EXCEPT !.op = "add_player", !.who = p,
                                       !.session = session, !.ok = r.ok, !.why = r.why]
      /\ now' = now + 1
      /\ stray' = stray

\* GameState::add_to_draw_pile: the host puts the next card of the deal on the
\* draw pile.
AddToDrawPile ==
  /\ now <= MaxSteps
  /\ Len(draw_pile) < Len(InitDrawPile)
  /\ Commit([Cur EXCEPT !.draw_pile = Append(@, InitDrawPile[Len(draw_pile) + 1])])
  /\ last' = [NoLast EXCEPT !.op = "add_to_draw_pile"]
  /\ now' = now + 1
  /\ stray' = stray

\* on_player_action with tag draw_from_deck, from a session id players joined
\* with, from a session id that is a player's id, and from an unknown session.
LobbyDraw ==
  \E session \in LobbySessions \cup Players \cup {Outsider} :
    /\ now <= MaxSteps
    /\ Served(OnPlayerAction(Cur, session,
                [NoData EXCEPT !.action = "draw_from_deck", !.source = "deck"], now),
              "draw_from_deck", session, NoCard, TRUE)

NextLobby ==
  \/ AddPlayer
  \/ AddToDrawPile
  \/ LobbyDraw

SpecLobby == InitLobby /\ [][NextLobby]_vars

(* ------------------------------------------------------------------ *)
(* The session maps on their own                                        *)
(* ------------------------------------------------------------------ *)

\* HashMap::remove
Drop(f, k) == [x \in DOMAIN f \ {k} |-> f[x]]

\* GameState::remove_player
remove_player(s, player_id) ==
  IF player_id \notin DOMAIN s.status THEN Reject(s)
  ELSE LET s1 == [s EXCEPT !.status = Drop(s.status, player_id),
                           !.hand = Drop(s.hand, player_id),
                           !.drawn_card = Drop(s.drawn_card, player_id),
                           !.cards_to_peek = Drop(s.cards_to_peek, player_id),
                           !.is_active = Drop(s.is_active, player_id),
                           !.name = Drop(s.name, player_id),
                           !.order = SelectSeq(s.order, LAMBDA x : x # player_id)]
       IN  IF player_id \notin DOMAIN s.player_sessions THEN s1
           ELSE [s1 EXCEPT !.player_sessions = Drop(s.player_sessions, player_id),
                           !.session_players =
                              Drop(s.session_players, s.player_sessions[player_id])]

\* GameState::update_player_session
update_player_session(s, player_id, session_id) ==
  IF player_id \notin DOMAIN s.status THEN Reject(s)
  ELSE LET unbound == IF player_id \in DOMAIN s.player_sessions
                      THEN Drop(s.session_players, s.player_sessions[player_id])
                      ELSE s.session_players
       IN  [s EXCEPT !.player_sessions = Put(Drop(s.player_sessions, player_id),
                                             player_id, session_id),
                     !.session_players = Put(unbound, session_id, player_id)]

\* GameState::remove_session (ok: it returned Some)
remove_session(s, session_id) ==
  IF session_id \notin DOMAIN s.session_players THEN Reject(s)
  ELSE [s EXCEPT !.session_players = Drop(s.session_players, session_id),
                 !.player_sessions = Drop(s.player_sessions, s.session_players[session_id])]

\* A call on the session maps took the table to r.
Called(r, op, p, session) ==
  /\ Commit(r)
  /\ last' = [NoLast EXCEPT !.op = op, !.who = p, !.session = session,
                            !.ok = r.ok, !.why = r.why]
  /\ now' = now + 1
  /\ stray' = stray

\* A player comes back with a session id: a fresh one, their own, or one that
\* is bound to another player.
UpdatePlayerSession ==
  \E p \in Players, session \in LobbySessions :
    /\ now <= MaxSteps
    /\ Called(update_player_session(Cur, p, session), "update_player_session", p, session)

\* A connection is closed.
RemoveSession ==
  \E session \in LobbySessions :
    /\ now <= MaxSteps
    /\ Called(remove_session(Cur, session), "remove_session", NoPlayer, session)

\* A player leaves the table.
RemovePlayer ==
  \E p \in Players :
    /\ now <= MaxSteps
    /\ Called(remove_player(Cur, p), "remove_player", p, NoSession)

NextSessions ==
  \/ AddPlayer
  \/ UpdatePlayerSession
  \/ RemoveSession
  \/ RemovePlayer

SpecSessions == InitLobby /\ [][NextSessions]_vars

(* ------------------------------------------------------------------ *)
(* Starting the game                                                    *)
(* ------------------------------------------------------------------ *)

\* GameState.max_players of the table that is started.
StartMaxPlayers == 14

\* The players who ask to join, in the order they ask.
Seats ==
  << "P01", "P02", "P03", "P04", "P05", "P06", "P07", "P08", "P09", "P10",
     "P11", "P12", "P13", "P14", "P15" >>

\* Orders in which a HashMap holding the first n of them may be iterated: in
\* the order of joining, in the opposite order, and starting with the second.
StartOrders(n) ==
  { [i \in 1..n |-> Seats[i]],
    [i \in 1..n |-> Seats[n + 1 - i]],
    [i \in 1..n |-> Seats[(i % n) + 1]] }

StandardSuits == << "Hearts", "Diamonds", "Clubs", "Spades" >>

StandardRanks ==
  << "Ace", "Two", "Three", "Four", "Five", "Six", "Seven", "Eight", "Nine",
     "Ten", "Jack", "Queen", "King" >>

\* The cards create_deck pushes, in the order it pushes them: the ranks of each
\* suit, then the two jokers. Card::new gives each a fresh id (a random UUID);
\* the i-th card made has id i.
StandardDeck ==
  [i \in 1..(Len(StandardSuits) * Len(StandardRanks)) |->
     [rank |-> StandardRanks[((i - 1) % Len(StandardRanks)) + 1],
      suit |-> StandardSuits[((i - 1) \div Len(StandardRanks)) + 1]]]
    \o << [rank |-> "Joker", suit |-> "Hearts"], [rank |-> "Joker", suit |-> "Spades"] >>

DeckSize == Len(StandardDeck)

\* Outcomes of deck.shuffle(&mut thread_rng()): the ids in the order made, in
\* the opposite order, and rotated.
Shuffles ==
  { [i \in 1..DeckSize |-> i],
    [i \in 1..DeckSize |-> DeckSize + 1 - i],
    [i \in 1..DeckSize |-> ((i + Len(StandardRanks)) % DeckSize) + 1] }

\* GameState::create_deck (game_state_old.rs)
create_deck(s, shuffle) == [s EXCEPT !.draw_pile = shuffle]

\* The k-th and later iterations of the two loops of deal_cards: four rounds
\* over players.values_mut(), each player taking the popped card, if any.
RECURSIVE DealFrom(_, _)
DealFrom(s, k) ==
  LET n == Len(s.order)
  IN  IF n = 0 \/ k >= 4 * n THEN s
      ELSE IF s.draw_pile = <<>> THEN DealFrom(s, k + 1)
      ELSE LET p == s.order[(k % n) + 1]
           IN  DealFrom([s EXCEPT !.draw_pile = Front(@),
                                  !.hand[p] = add_card_to_hand(@, Top(s.draw_pile))],
                        k + 1)

\* GameState::deal_cards (game_state_old.rs)
deal_cards(s, shuffle) == DealFrom(create_deck(s, shuffle), 0)

\* GameState::can_start (game_state_old.rs)
can_start(s) == Cardinality(DOMAIN s.status) >= s.min_players /\ ~s.game_started

\* GameState::start_game (game_state_old.rs)
start_game(s, shuffle) ==
  IF ~can_start(s) THEN Reject(s)
  ELSE LET s1 == deal_cards(SetPhase([s EXCEPT !.game_started = TRUE], "dealing_cards"),
                            shuffle)
       IN  IF s1.order # <<>> THEN [s1 EXCEPT !.current_player_id = s1.order[1]] ELSE s1

\* GameState::add_player (game_state_old.rs). o: the order in which the
\* players map is iterated after the insert.
add_player(s, p, o) ==
  IF Cardinality(DOMAIN s.status) >= StartMaxPlayers THEN Reject(s)
  ELSE [s EXCEPT !.status = Put(s.status, p, "waiting"),
                 !.hand = Put(s.hand, p, NewHand),
                 !.drawn_card = Put(s.drawn_card, p, NoCard),
                 !.cards_to_peek = Put(s.cards_to_peek, p, <<>>),
                 !.is_active = Put(s.is_active, p, TRUE),
                 !.name = Put(s.name, p, p),
                 !.order = o]

\* GameState::new (game_state_old.rs): an empty table, with the min_players
\* the host asked for.
InitStart ==
  /\ order = <<>>
  /\ recall_called_by = NoPlayer
  /\ phase = "waiting_for_players"
  /\ current_player_id = NoPlayer
  /\ status = <<>>
  /\ hand = <<>>
  /\ drawn_card = <<>>
  /\ cards_to_peek = <<>>
  /\ is_active = <<>>
  /\ name = <<>>
  /\ draw_pile = <<>>
  /\ discard_pile = <<>>
  /\ pending_draws = [p \in Players |-> NoCard]
  /\ last_action_time = 0
  /\ same_rank_data = NoSameRankData
  /\ special_card_data = <<>>
  /\ special_card_players = <<>>
  /\ same_rank_timer = FALSE
  /\ special_card_timer = FALSE
  /\ pending_events = <<>>
  /\ player_sessions = <<>>
  /\ session_players = <<>>
  /\ game_started = FALSE
  /\ min_players \in {0, Cardinality(Players)}
  /\ same_rank_due = FALSE
  /\ special_due = FALSE
  /\ quiet = FALSE
  /\ ticks = NoTicks
  /\ advances = <<>>
  /\ now = 1
  /\ stray = 0
  /\ trace = <<"waiting_for_players">>
  /\ plays = <<>>
  /\ verdict = NoVerdict
  /\ last = NoLast

\* The next player asks to join.
JoinTable ==
  LET n == Cardinality(DOMAIN status)
  IN  /\ n < Len(Seats)
      /\ \E o \in StartOrders(n + 1) :
           LET r == add_player(Cur, Seats[n + 1], o)
           IN  /\ Commit(r)
               /\ last' = [NoLast EXCEPT !.op = "add_player", !.who = Seats[n + 1],
                                         !.ok = r.ok, !.why = r.why]
      /\ UNCHANGED << now, stray >>

\* The host asks for the start.
StartGame ==
  /\ \E shuffle \in Shuffles :
       LET r == start_game(Cur, shuffle)
       IN  /\ Commit(r)
           /\ last' = [NoLast EXCEPT !.op = "start_game", !.ok = r.ok, !.why = r.why]
  /\ UNCHANGED << now, stray >>

NextStart ==
  \/ JoinTable
  \/ StartGame

SpecStart == InitStart /\ [][NextStart]_vars

(* ------------------------------------------------------------------ *)
(* Properties of the winner resolver (under SpecResolver)               *)
(* ------------------------------------------------------------------ *)

\* The active players of the table, the number of cards and the points each holds.
Scored == { p \in Players : is_active[p] /\ status[p] \notin {"finished", "disconnected"} }
CardCount(p) == Cardinality({ i \in DOMAIN hand[p] : hand[p][i] # NoCard })
TotalPoints(p) == SumPoints(HandCards(hand[p]))
EmptyHanded == { p \in Scored : CardCount(p) = 0 }
TiedAtMinimum == { p \in Scored : \A q \in Scored : TotalPoints(p) <= TotalPoints(q) }

\* C8: the resolver is deterministic: an invocation on the same inputs as the
\* invocation before it (same card counts, totals, names and recall caller, the
\* table being untouched in between) returns the same verdict (tie flag,
\* winner id, reason and winners list), also when more than one active player
\* has an empty hand.
C8_ResolverDeterministic ==
  [][verdict # NoVerdict => verdict' = verdict]_vars

\* C9: the verdict is the ordered cascade: (1) a player with zero cards wins
\* with reason no_cards; else (2) the only player at the minimum total wins
\* with reason lowest_points; else (3) the recall caller, when among the
\* players tied at the minimum, wins with reason recall_caller_lowest_points;
\* else (4) a tie with no winner id and a winners list holding exactly the
\* tied players' names.
C9_WinnerCascade ==
  verdict # NoVerdict =>
    IF EmptyHanded # {}
    THEN /\ ~verdict.is_tie /\ verdict.winner_id \in EmptyHanded
         /\ verdict.win_reason = "no_cards" /\ verdict.winners = <<>>
    ELSE IF Cardinality(TiedAtMinimum) = 1
    THEN /\ ~verdict.is_tie /\ verdict.winner_id \in TiedAtMinimum
         /\ verdict.win_reason = "lowest_points" /\ verdict.winners = <<>>
    ELSE IF recall_called_by \in TiedAtMinimum
    THEN /\ ~verdict.is_tie /\ verdict.winner_id = recall_called_by
         /\ verdict.win_reason = "recall_caller_lowest_points"
         /\ verdict.winners = <<>>
    ELSE /\ verdict.is_tie /\ verdict.winner_id = NoPlayer
         /\ verdict.win_reason = "tie_lowest_points"
         /\ Len(verdict.winners) = Cardinality(TiedAtMinimum)
         /\ SeqToSet(verdict.winners) = { name[p] : p \in TiedAtMinimum }

\* C9 witness: two players with cards tied at the minimum, one of them the
\* recall caller, resolved for the recall caller.
C9_Witness ==
  /\ verdict # NoVerdict
  /\ EmptyHanded = {}
  /\ Cardinality(TiedAtMinimum) = 2
  /\ recall_called_by \in TiedAtMinimum
  /\ verdict.win_reason = "recall_caller_lowest_points"

(* ------------------------------------------------------------------ *)
(* Properties of play (under Spec)                                      *)
(* ------------------------------------------------------------------ *)

\* Number of entries of seq equal to x.
Count(seq, x) == Cardinality({ i \in DOMAIN seq : seq[i] = x })

\* Sum of f over the players.
RECURSIVE SumOver(_, _)
SumOver(f, S) ==
  IF S = {} THEN 0
  ELSE LET p == CHOOSE q \in S : TRUE IN f[p] + SumOver(f, S \ {p})

\* The places that hold card c itself: the hand slots, the two piles and the
\* pending draws.
Held(c) ==
  SumOver([p \in Players |-> Count(hand[p], c)], Players)
    + Count(draw_pile, c) + Count(discard_pile, c)
    + Cardinality({ p \in Players : pending_draws[p] = c })

\* The drawn-card registers and peek buffers that name card c.
Registered(c) ==
  Cardinality({ p \in Players : drawn_card[p] = c })
    + SumOver([p \in Players |-> Count(cards_to_peek[p], c)], Players)

\* C1 (as stated): the multiset of card ids over all hand slots, the draw
\* pile, the discard pile, the pending draws, all peek buffers and all
\* drawn-card registers equals the deck: every card of the deck is in exactly
\* one of these locations.
C1_CardConservation ==
  \A c \in CardIds : Held(c) + Registered(c) = 1

\* C1 (amended): the multiset of card ids over the hand slots, the draw pile,
\* the discard pile and the pending draws equals the deck; a drawn-card
\* register or a peek buffer names a card of the deck, which is held in one of
\* those places as well.
C1_ConservationOfHeldCards ==
  /\ \A c \in CardIds : Held(c) = 1
  /\ \A p \in Players :
       /\ drawn_card[p] \in CardIds \cup {NoCard}
       /\ SeqToSet(cards_to_peek[p]) \subseteq CardIds

\* C1 witness: a player has drawn, and the drawn card is in the hand and in
\* the drawn-card register.
C1_Witness ==
  \E p \in Players :
    /\ last.op = "draw_from_deck" /\ last.ok /\ last.who = p
    /\ drawn_card[p] # NoCard
    /\ Holds(p, drawn_card[p])

\* C2: after an accepted play_card by a player who holds a drawn card other
\* than the played card, the drawn card is at the index the played card
\* occupied, and every other index of the hand (other than the one the drawn
\* card left) holds what it held before.
C2_PositionalHandIdentity ==
  [][\A p \in Players :
       (/\ last'.op = "play_card" /\ last'.ok /\ last'.who = p /\ now' = now + 1
        /\ drawn_card[p] # NoCard /\ drawn_card[p] # last'.card
        /\ Holds(p, drawn_card[p]))
       => LET i == Position(hand[p], last'.card)
              j == Position(hand[p], drawn_card[p])
          IN  /\ i \in DOMAIN hand'[p]
              /\ hand'[p][i] = drawn_card[p]
              /\ \A k \in DOMAIN hand[p] \ {i, j} :
                   k \in DOMAIN hand'[p] /\ hand'[p][k] = hand[p][k]]_vars

\* The phase sequences of one turn.
IsPrefix(a, b) == Len(a) <= Len(b) /\ \A i \in DOMAIN a : a[i] = b[i]
TurnWithSpecials ==
  <<"player_turn", "same_rank_window", "special_play_window",
    "turn_pending_events", "ending_round">>
TurnWithoutSpecials == <<"player_turn", "same_rank_window", "ending_round">>

\* The distinct phases of the turn up to the end of the match.
TurnTrace ==
  LET ends == { i \in DOMAIN trace : trace[i] = "game_ended" }
  IN  IF ends = {} THEN trace ELSE SubSeq(trace, 1, Min(ends) - 1)

\* C3: between one start of turn and the next (or the end of the match) the
\* sequence of distinct phases is a prefix of player_turn, same_rank_window,
\* special_play_window, turn_pending_events, ending_round, or, when no
\* special card is queued, of player_turn, same_rank_window, ending_round.
C3_PhaseMonotonicity ==
  IsPrefix(TurnTrace, TurnWithSpecials) \/ IsPrefix(TurnTrace, TurnWithoutSpecials)

\* C4 (as stated): whenever _move_to_next_player was entered with a recall
\* caller recorded and the current-player pointer equal to that caller, the
\* invocation ended with phase game_ended.
C4_RecallTermination ==
  (/\ last.moved.entered
   /\ recall_called_by # NoPlayer
   /\ last.moved.from = recall_called_by)
  => phase = "game_ended"

\* C4 (amended): an invocation of _move_to_next_player that finds an active
\* player ends with phase game_ended exactly when a recall caller is recorded
\* and the player it selects as the new current player is that caller;
\* otherwise it ends with phase player_turn.
C4_RecallEndsAtSelectedCaller ==
  (last.moved.entered /\ last.moved.n_active > 0)
  => IF recall_called_by # NoPlayer /\ current_player_id = recall_called_by
     THEN phase = "game_ended"
     ELSE phase = "player_turn"

\* C4 witness: with two active players the pointer moved from the other
\* player to the recall caller, and the match has ended.
C4_Witness ==
  /\ last.moved.entered /\ last.moved.n_active = 2
  /\ recall_called_by # NoPlayer
  /\ last.moved.from # recall_called_by
  /\ current_player_id = recall_called_by
  /\ phase = "game_ended"

\* C5: once the phase is game_ended no player action and no timer expiry
\* changes it.
C5_GameEndedAbsorbing ==
  [][phase = "game_ended" => phase' = "game_ended"]_vars

\* C6: when on_player_action returns false because of a validation failure,
\* the phase, every status and hand, both piles, the queues and
\* last_action_time are as before.
C6_RejectionLeavesTableUnchanged ==
  [][(now' = now + 1 /\ ~last'.ok /\ last'.why = "validation")
     => UNCHANGED << phase, status, hand, draw_pile, discard_pile,
                     special_card_data, special_card_players, pending_events,
                     last_action_time >>]_vars

\* The same_rank_play being served names card c of p's hand.
OffersSameRank(p, c) ==
  /\ now' = now + 1
  /\ last'.op = "same_rank_play" /\ last'.who = p /\ last'.card = c
  /\ Holds(p, c)

\* Number of cards in p's hand.
HandSize(h) == Cardinality({ i \in DOMAIN h : h[i] # NoCard })

\* The rejection of a same_rank_play with its penalty: the hand grows by one
\* card when the draw pile was non-empty and not at all when it was empty.
RejectedWithPenalty(p) ==
  /\ ~last'.ok
  /\ HandSize(hand'[p]) = HandSize(hand[p]) + (IF draw_pile # <<>> THEN 1 ELSE 0)

NormalWindowClose ==
  /\ now' = now + 1 /\ last'.op = "same_rank_timer"
  /\ phase = "same_rank_window"
  /\ special_card_data = <<>>
  /\ \A p \in Scored : HandSize(hand[p]) > 0
  /\ recall_called_by = NoPlayer

\* The active player after the current player in the player order, cyclically.
NextActivePlayer ==
  LET act == IterOrder(order, Scored)
      i == Position(act, current_player_id)
  IN  act[(i % Len(act)) + 1]

\* C10 (as stated): when the window closes so, in that step the outgoing
\* current player's status becomes ready, the pointer moves to the next active
\* player, the phase becomes player_turn and the new current player's status
\* becomes drawing_card.
C10_NormalHandOver ==
  [][NormalWindowClose
     => /\ status'[current_player_id] = "ready"
        /\ Scored # {}
        /\ current_player_id' = NextActivePlayer
        /\ phase' = "player_turn"
        /\ status'[current_player_id'] = "drawing_card"]_vars

\* C10 (amended): when the window closes so and some player is active, in
\* that step the pointer moves to the next active player (an active player,
\* when the outgoing player is not active itself), the phase becomes
\* player_turn, the new current player's status becomes drawing_card, and the
\* outgoing player's status becomes ready unless it is the new current player
\* as well (the only active player); when no player is active the pointer
\* stays and the phase is left at ending_round.
C10_HandOverToNextActive ==
  [][NormalWindowClose
     => IF Scored = {}
        THEN current_player_id' = current_player_id /\ phase' = "ending_round"
        ELSE /\ IF current_player_id \in Scored
                THEN current_player_id' = NextActivePlayer
                ELSE current_player_id' \in Scored
             /\ phase' = "player_turn"
             /\ status'[current_player_id'] = "drawing_card"
             /\ current_player_id' # current_player_id
                  => status'[current_player_id] = "ready"]_vars

\* C10 witness: the window closed on a table whose only active player is the
\* current player, who starts the next turn as well.
C10_Witness ==
  /\ last.op = "same_rank_timer"
  /\ last.moved.entered /\ last.moved.n_active = 1
  /\ recall_called_by = NoPlayer
  /\ last.moved.from = current_player_id
  /\ phase = "player_turn"
  /\ status[current_player_id] = "drawing_card"

\* The active players whose hand has no card.
EmptyHandedActive == { q \in Scored : HandSize(hand[q]) = 0 }

\* C11: when the same-rank window closes and exactly one active player has
\* no card in the hand, in that step the phase becomes game_ended, that player
\* gets status winner, every other active player status finished, the
\* current-player pointer stays and no new turn is started.
C11_EmptyHandWin ==
  [][\A p \in Players :
       (/\ now' = now + 1 /\ last'.op = "same_rank_timer"
        /\ EmptyHandedActive = {p})
       => /\ phase' = "game_ended"
          /\ status'[p] = "winner"
          /\ \A q \in Scored \ {p} : status'[q] = "finished"
          /\ current_player_id' = current_player_id
          /\ ~last'.moved.entered
          /\ \A q \in Players : status'[q] # "drawing_card"]_vars

\* C11 witness: the window closed on a player without cards, who has won
\* by rule 1 while the other player, with cards, is finished.
C11_Witness ==
  \E p \in Players :
    /\ last.op = "same_rank_timer" /\ ~last.moved.entered
    /\ phase = "game_ended"
    /\ verdict.win_reason = "no_cards" /\ verdict.winner_id = p
    /\ HandSize(hand[p]) = 0 /\ status[p] = "winner"
    /\ \E q \in Players \ {p} : HandSize(hand[q]) > 0 /\ status[q] = "finished"

\* Player p, the head entry of the special queue, has its power accepted in
\* this step: a jack_swap in status jack_swap or a queen_peek in status
\* queen_peek, while the phase is special_play_window.
HeadPerformsPower(p) ==
  /\ now' = now + 1 /\ last'.ok /\ last'.who = p
  /\ last'.op \in {"jack_swap", "queen_peek"}
  /\ phase = "special_play_window"
  /\ special_card_players # <<>>
  /\ special_card_players[1].player_id = p
  /\ special_card_players[1].special_power = last'.op
  /\ status[p] = last'.op

\* C12: an accepted jack_swap (queen_peek) by the head entry of the special
\* queue removes the head entry; when it was the last entry the queue is
\* empty and the phase leaves special_play_window in that step.
C12_PowerAdvancesQueue ==
  [][\A p \in Players :
       HeadPerformsPower(p)
       => IF Len(special_card_players) = 1
          THEN special_card_players' = <<>> /\ phase' # "special_play_window"
          ELSE special_card_players' = Tail(special_card_players)]_vars

\* C13: when the discard pile holds at least two cards and a same_rank_play
\* offers a held card whose rank differs from the rank of the top of the
\* discard pile, the action returns false, the discard pile is unchanged, the
\* offered card stays in its slot, the top card of the draw pile (if any)
\* moves into the actor's hand, and the actor's status is waiting afterwards,
\* whether the draw pile was empty or not.
C13_SameRankPenalty ==
  [][\A p \in Players, c \in CardIds :
       (/\ OffersSameRank(p, c)
        /\ Len(discard_pile) >= 2
        /\ RankOf(c) # RankOf(Top(discard_pile)))
       => /\ ~last'.ok
          /\ discard_pile' = discard_pile
          /\ Position(hand'[p], c) = Position(hand[p], c)
          /\ IF draw_pile # <<>>
             THEN /\ draw_pile' = Front(draw_pile)
                  /\ Top(draw_pile) \in SeqToSet(hand'[p])
                  /\ HandSize(hand'[p]) = HandSize(hand[p]) + 1
             ELSE draw_pile' = draw_pile /\ hand'[p] = hand[p]
          /\ status'[p] = "waiting"]_vars

\* C14: the accepted same_rank_play submissions of one window get the play
\* orders 1, 2, 3, ... in the order they arrive, also when one player has more
\* than one play accepted.
C14_PlayOrder ==
  \A i \in DOMAIN plays : plays[i] = i

\* C15: after every accepted play_card the phase is same_rank_window, every
\* active player's status is same_rank_window, the status of every inactive
\* player is unchanged, the played card is the top of the discard pile and the
\* same-rank timer is armed.
C15_PlayCardOpensWindow ==
  [][(now' = now + 1 /\ last'.op = "play_card" /\ last'.ok)
     => /\ phase' = "same_rank_window"
        /\ \A q \in Scored : status'[q] = "same_rank_window"
        /\ \A q \in Players \ Scored : status'[q] = status[q]
        /\ discard_pile' = Append(discard_pile, last'.card)
        /\ same_rank_timer' /\ same_rank_due']_vars

\* C15 witness: a card was played with the other player disconnected; the
\* window is open, the timer armed and the other player still disconnected.
C15_Witness ==
  /\ last.op = "play_card" /\ last.ok
  /\ phase = "same_rank_window"
  /\ discard_pile # <<>> /\ Top(discard_pile) = last.card
  /\ status[last.who] = "same_rank_window"
  /\ \E q \in Players : status[q] = "disconnected"
  /\ same_rank_timer

\* C16: after every accepted same_rank_play, whatever the phase was before,
\* the phase is same_rank_window and every active player's status is
\* same_rank_window.
C16_SameRankPlayOpensWindow ==
  [][(now' = now + 1 /\ last'.op = "same_rank_play" /\ last'.ok)
     => /\ phase' = "same_rank_window"
        /\ \A q \in Scored : status'[q] = "same_rank_window"]_vars

\* C17: when _move_to_next_player selects a new current player and a recall
\* caller is recorded, then, if the new current player is the recall caller,
\* the phase becomes game_ended and the step gives no player the status
\* drawing_card; otherwise the phase becomes player_turn and the new current
\* player gets status drawing_card.
C17_RecallCheckOnAdvance ==
  [][(/\ now' = now + 1
      /\ last'.moved.entered /\ last'.moved.n_active > 0
      /\ recall_called_by # NoPlayer)
     => IF current_player_id' = recall_called_by
        THEN /\ phase' = "game_ended"
             /\ \A q \in Players :
                  status'[q] = "drawing_card" => status[q] = "drawing_card"
        ELSE /\ phase' = "player_turn"
             /\ status'[current_player_id'] = "drawing_card"]_vars

\* C17 witness: with a recall caller recorded the pointer moved from the
\* caller to the other player, whose turn has started.
C17_Witness ==
  /\ last.moved.entered /\ last.moved.n_active = 2
  /\ recall_called_by # NoPlayer
  /\ last.moved.from = recall_called_by
  /\ current_player_id # recall_called_by
  /\ phase = "player_turn"
  /\ status[current_player_id] = "drawing_card"

\* The cyclic successor of player p among the players of set S, in the order
\* the players map yields them.
SuccessorAmong(S, p) ==
  LET act == IterOrder(order, S)
  IN  act[(Position(act, p) % Len(act)) + 1]

\* C18: with no recall caller and the current player among the k >= 1 active
\* players, each invocation of _move_to_next_player moves the pointer to the
\* cyclic successor of the current player in the order of the active players;
\* an inactive player is never selected. (So k advances over the same active
\* players visit each of them once and return the pointer.)
C18_RoundRobin ==
  [][(/\ now' = now + 1
      /\ last'.moved.entered
      /\ recall_called_by = NoPlayer
      /\ current_player_id \in SeqToSet(last'.moved.active))
     => /\ current_player_id' \in SeqToSet(last'.moved.active)
        /\ current_player_id'
             = SuccessorAmong(SeqToSet(last'.moved.active), current_player_id)]_vars

\* C18 witness: with two active players and no recall caller the pointer has
\* come back from the second player of the order to the first, where it
\* started.
C18_Witness ==
  /\ last.moved.entered /\ last.moved.n_active = 2
  /\ recall_called_by = NoPlayer
  /\ last.moved.from = order[2]
  /\ current_player_id = order[1]
  /\ phase = "player_turn"

\* C19: in every state where the phase is not same_rank_window the same-rank
\* timer id is unset, and in every state where the phase is not
\* special_play_window the special-card timer id is unset.
C19_TimersReleased ==
  /\ phase # "same_rank_window" => ~same_rank_timer
  /\ phase # "special_play_window" => ~special_card_timer

\* C20: a same-rank timer expiry delivered while the phase is not
\* same_rank_window, and a special-card timer expiry delivered while the phase
\* is not special_play_window, leave the phase, the current-player pointer and
\* every status unchanged.
C20_LateExpiryIgnored ==
  [][(/\ now' = now + 1
      /\ \/ last'.op = "same_rank_timer" /\ phase # "same_rank_window"
         \/ last'.op = "special_card_timer" /\ phase # "special_play_window")
     => UNCHANGED << phase, current_player_id, status >>]_vars

(* ------------------------------------------------------------------ *)
(* Properties of the end of a match (under SpecMatch)                   *)
(* ------------------------------------------------------------------ *)

\* The players the end of match scores, and those of them at the minimum total.
MatchScored == ActivePlayers(Cur)
MatchTied ==
  { p \in MatchScored :
      \A q \in MatchScored : SumPoints(HandCards(hand[p])) <= SumPoints(HandCards(hand[q])) }

\* C21: after an end of match with a non-tie verdict the phase is game_ended,
\* exactly one player has status winner, namely the verdict's winner, and
\* every other player that was active has status finished.
C21_FinalStatusesNonTie ==
  [][(last'.op = "end_of_match" /\ ~verdict'.is_tie)
     => /\ phase' = "game_ended"
        /\ verdict'.winner_id \in DOMAIN status
        /\ { p \in DOMAIN status : status'[p] = "winner" } = {verdict'.winner_id}
        /\ \A p \in MatchScored \ {verdict'.winner_id} : status'[p] = "finished"]_vars

\* C21 witness: three active players, one alone at the minimum, resolved: one
\* winner and two players finished.
C21_Witness ==
  /\ last.op = "end_of_match"
  /\ verdict.win_reason = "lowest_points"
  /\ status[verdict.winner_id] = "winner"
  /\ Cardinality({ p \in DOMAIN status : status[p] = "finished" }) = 2
  /\ \A p \in DOMAIN hand : HandCards(hand[p]) # <<>>

\* C22: after an end of match with a tie verdict the phase is game_ended, no
\* player has status winner, every player tied at the minimum total has status
\* finished, and no player outside the tied set has its status changed, also
\* when two players share a display name.
C22_FinalStatusesTie ==
  [][(last'.op = "end_of_match" /\ verdict'.is_tie)
     => /\ phase' = "game_ended"
        /\ \A p \in DOMAIN status : status'[p] # "winner"
        /\ \A p \in MatchTied : status'[p] = "finished"
        /\ \A p \in DOMAIN status \ MatchTied : status'[p] = status[p]]_vars

(* ------------------------------------------------------------------ *)
(* Properties of the action handlers (under Spec)                       *)
(* ------------------------------------------------------------------ *)

\* The empty slots of p's hand.
EmptySlots(p) == { i \in DOMAIN hand[p] : hand[p][i] = NoCard }

\* The table a draw_from_deck request of p with the given source leaves.
AfterDraw(p, source) ==
  OnPlayerAction(Cur, p, [NoData EXCEPT !.action = "draw_from_deck", !.source = source], now)

\* C23: a draw_from_deck with source deck (resp. discard) on a non-empty pile
\* is accepted, removes exactly the top card of the draw pile (resp. discard
\* pile), puts that card into the actor's first empty hand slot or appends a
\* slot when none is empty, sets the actor's drawn-card register to that card
\* and the actor's status to playing_card, and changes no other player's hand;
\* with the chosen pile empty or another source it returns false.
C23_Drawing ==
  \A p \in Players, source \in {"deck", "discard", "hand"} :
    LET r == AfterDraw(p, source)
        pile == IF source = "deck" THEN draw_pile ELSE discard_pile
        c == Top(pile)
    IN  IF source \in {"deck", "discard"} /\ pile # <<>>
        THEN /\ r.ok
             /\ IF source = "deck" THEN r.draw_pile = Front(draw_pile)
                                   ELSE r.discard_pile = Front(discard_pile)
             /\ IF EmptySlots(p) # {}
                THEN /\ Len(r.hand[p]) = Len(hand[p])
                     /\ \A i \in DOMAIN hand[p] :
                          r.hand[p][i] = IF i = Min(EmptySlots(p)) THEN c ELSE hand[p][i]
                ELSE r.hand[p] = Append(hand[p], c)
             /\ r.drawn_card[p] = c
             /\ r.status[p] = "playing_card"
             /\ \A q \in Players \ {p} : r.hand[q] = hand[q]
        ELSE ~r.ok

\* C23 witness: an accepted draw has put the drawn card into an empty slot
\* that is not the last slot of the hand.
C23_Witness ==
  /\ last.op = "draw_from_deck" /\ last.ok
  /\ status[last.who] = "playing_card"
  /\ drawn_card[last.who] # NoCard
  /\ Position(hand[last.who], drawn_card[last.who]) \in 1..(Len(hand[last.who]) - 1)

\* C24: after every accepted play_card the actor's drawn-card register is
\* empty, whether the played card is the drawn card or another card, and no
\* drawn-card register names a card that lies in the discard pile.
C24_DrawnRegisterAfterPlay ==
  [][/\ (now' = now + 1 /\ last'.op = "play_card" /\ last'.ok)
          => drawn_card'[last'.who] = NoCard
     /\ \A q \in Players :
          drawn_card'[q] = NoCard \/ drawn_card'[q] \notin SeqToSet(discard_pile')]_vars

\* The table a jack_swap request of p leaves.
AfterJackSwap(p, fc, fp, sc, sp) ==
  OnPlayerAction(Cur, p,
    [NoData EXCEPT !.action = "jack_swap", !.first_card_id = fc, !.first_player_id = fp,
                   !.second_card_id = sc, !.second_player_id = sp], now)

\* The cards p holds; the cards a request may name that p does not hold (no
\* card, and a card that lies elsewhere); one card p holds, if any.
HeldBy(p) == SeqToSet(hand[p]) \ {NoCard}
NotHeldBy(p) == Nameable(p) \ HeldBy(p)
SomeHeld(p) == IF HeldBy(p) = {} THEN NoCard ELSE CHOOSE c \in HeldBy(p) : TRUE

\* C25: a jack_swap (sent by the current player; the handler does not read
\* the sender) of card X at index i of P's hand with card Y at index j of Q's
\* hand (P and Q possibly the same player) is accepted and leaves Y at index i
\* of P's hand and X at index j of Q's hand, every other hand slot of every
\* player and both piles unchanged; a jack_swap naming, on either side, a card
\* that is not in the named owner's hand, or an unknown player, is rejected
\* with all hands unchanged.
C25_JackSwapInPlace ==
  /\ \A fp \in Players, sp \in Players :
       \A fc \in HeldBy(fp), sc \in HeldBy(sp) :
         LET r == AfterJackSwap(current_player_id, fc, fp, sc, sp)
             i == Position(hand[fp], fc)
             j == Position(hand[sp], sc)
         IN  /\ r.ok
             /\ r.hand =
                  [q \in Players |->
                     [k \in DOMAIN hand[q] |->
                        IF <<q, k>> = <<fp, i>> THEN sc
                        ELSE IF <<q, k>> = <<sp, j>> THEN fc
                        ELSE hand[q][k]]]
             /\ r.draw_pile = draw_pile
             /\ r.discard_pile = discard_pile
  /\ \A p \in Players, q \in Players :
       \A bad \in NotHeldBy(p) :
         LET r1 == AfterJackSwap(current_player_id, bad, p, SomeHeld(q), q)
             r2 == AfterJackSwap(current_player_id, SomeHeld(q), q, bad, p)
         IN  /\ ~r1.ok /\ r1.hand = hand
             /\ ~r2.ok /\ r2.hand = hand
  /\ \A p \in Players :
       LET r1 == AfterJackSwap(current_player_id, SomeHeld(p), p, SomeHeld(p), Outsider)
           r2 == AfterJackSwap(current_player_id, SomeHeld(p), Outsider, SomeHeld(p), p)
       IN  /\ ~r1.ok /\ r1.hand = hand
           /\ ~r2.ok /\ r2.hand = hand

\* C25 witness: the player whose jack is being handled has swapped a card
\* dealt to that player against a card of the other player.
C25_Witness ==
  /\ last.op = "jack_swap" /\ last.ok
  /\ phase = "special_play_window"
  /\ last.card \in SeqToSet(InitHand[last.who])
  /\ \E q \in Players \ {last.who} : Holds(q, last.card)

\* The table a queen_peek request of p leaves.
AfterQueenPeek(p, c, owner) ==
  OnPlayerAction(Cur, p,
    [NoData EXCEPT !.action = "queen_peek", !.card_id = c, !.ownerId = owner], now)

\* C26: after an accepted queen_peek naming card Y in owner B's hand the
\* actor's peek buffer contains exactly one card, a copy of Y, whatever it
\* contained before; the actor's status is peeking; B's hand and both piles
\* are unchanged; a queen_peek naming a card not in B's hand (or an unknown
\* owner) is rejected with the actor's peek buffer and status unchanged.
C26_QueenPeek ==
  \A p \in Players, owner \in Players \cup {NoPlayer, Outsider} :
    \A c \in Nameable(IF owner \in Players THEN owner ELSE p) :
      LET r == AfterQueenPeek(p, c, owner)
      IN  IF owner \in Players /\ Holds(owner, c)
          THEN /\ r.ok
               /\ r.cards_to_peek[p] = <<c>>
               /\ r.status[p] = "peeking"
               /\ r.hand[owner] = hand[owner]
               /\ r.draw_pile = draw_pile
               /\ r.discard_pile = discard_pile
          ELSE /\ ~r.ok
               /\ r.cards_to_peek[p] = cards_to_peek[p]
               /\ r.status[p] = status[p]

\* C26 witness: the player whose queen is being handled has peeked at a card
\* of the other player.
C26_Witness ==
  /\ last.op = "queen_peek" /\ last.ok
  /\ phase = "special_play_window"
  /\ status[last.who] = "peeking"
  /\ cards_to_peek[last.who] = <<last.card>>
  /\ \E q \in Players \ {last.who} : Holds(q, last.card)

\* The statuses that give a player a special power.
PowerStatuses == {"jack_swap", "queen_peek"}

\* C27: when the same-rank window closes with special-card entries queued the
\* phase becomes special_play_window and the working queue holds the entries
\* in the order they were played; at every moment at most one player has status
\* jack_swap or queen_peek and it is the player of the head entry, with the
\* status of the head entry's power; each special-card timer expiry in the
\* window removes exactly the head entry, resets that player's status to
\* waiting and hands the power status to the next entry's player; every entry
\* is handled once: a player is handed a power status only when the queue is
\* started or its head has just been removed.
C27_SpecialWindowSequencing ==
  [][/\ (now' = now + 1 /\ last'.op = "same_rank_timer" /\ phase = "same_rank_window"
           /\ special_card_data # <<>>)
        => /\ phase' = "special_play_window"
           /\ special_card_players' = special_card_data
     /\ \A p \in Players :
          status'[p] \in PowerStatuses
            => /\ special_card_players' # <<>>
               /\ special_card_players'[1].player_id = p
               /\ special_card_players'[1].special_power = status'[p]
     /\ (now' = now + 1 /\ last'.op = "special_card_timer"
           /\ phase = "special_play_window" /\ special_card_players # <<>>)
        => /\ special_card_players' = Tail(special_card_players)
           /\ Tail(special_card_players) # <<>>
                => /\ status'[special_card_players[2].player_id]
                        = special_card_players[2].special_power
                   /\ special_card_players[2].player_id # special_card_players[1].player_id
                        => status'[special_card_players[1].player_id] = "waiting"
     /\ \A p \in Players :
          (status'[p] \in PowerStatuses /\ status[p] \notin PowerStatuses)
            => \/ special_card_players = <<>>
               \/ special_card_players' = Tail(special_card_players)]_vars

\* The last three phases of the turn that _move_to_next_player found.
LastThree(tr) == IF Len(tr) < 3 THEN tr ELSE SubSeq(tr, Len(tr) - 2, Len(tr))

\* C28: when a special-card timer expiry removes the last entry of the working
\* queue, the queued special-card table and the working queue are both empty
\* and the special timer is released, the pending-events list is drained, the
\* phase has passed through turn_pending_events and ending_round, and the
\* current-player pointer has advanced by exactly one position among the
\* active players, whether the pending-events list was empty or not.
C28_DrainEndsTurnOnce ==
  [][(now' = now + 1 /\ last'.op = "special_card_timer"
        /\ phase = "special_play_window" /\ Len(special_card_players) = 1)
     => /\ special_card_data' = <<>>
        /\ special_card_players' = <<>>
        /\ ~special_card_timer'
        /\ pending_events' = <<>>
        /\ last'.drained = Len(pending_events)
        /\ last'.moved.entered
        /\ LastThree(last'.moved.trace)
             = <<"special_play_window", "turn_pending_events", "ending_round">>
        /\ last'.moved.from = current_player_id
        /\ current_player_id'
             = SuccessorAmong(SeqToSet(last'.moved.active), current_player_id)]_vars

\* C28 witness: the last entry was removed while an event was pending, and the
\* turn has passed from one of two active players to the other.
C28_Witness ==
  /\ last.op = "special_card_timer"
  /\ last.drained = 1
  /\ last.moved.entered /\ last.moved.n_active = 2
  /\ current_player_id # last.moved.from
  /\ phase = "player_turn"
  /\ special_card_data = <<>> /\ special_card_players = <<>> /\ ~special_card_timer

(* ------------------------------------------------------------------ *)
(* Properties of the session map (under SpecLobby)                      *)
(* ------------------------------------------------------------------ *)

\* C29: after add_player(p, session s) returns true, the session map holds
\* p -> s and s -> p for the player that just joined, whatever other players
\* are already at the table.
C29_JoinBindsSession ==
  [][(now' = now + 1 /\ last'.op = "add_player" /\ last'.ok
        /\ last'.session # NoSession)
     => /\ last'.who \in DOMAIN player_sessions'
        /\ player_sessions'[last'.who] = last'.session
        /\ last'.session \in DOMAIN session_players'
        /\ session_players'[last'.session] = last'.who]_vars

\* The table a draw from the deck by player p leaves.
DrawOnBehalfOf(p) ==
  RouteAction(Cur, p, [NoData EXCEPT !.action = "draw_from_deck", !.source = "deck"])

\* C30: on_player_action(session s, request) executes the request on behalf
\* of the player the session map binds to s, and is rejected, the table left
\* as it is, when s is bound to no player of the table, also when the string
\* s equals some player's id.
C30_AttributedThroughSessionMap ==
  [][(now' = now + 1 /\ last'.op = "draw_from_deck")
     => IF /\ last'.session \in DOMAIN session_players
           /\ session_players[last'.session] \in DOMAIN status
        THEN LET r == DrawOnBehalfOf(session_players[last'.session])
             IN  /\ last'.ok = r.ok
                 /\ hand' = r.hand
                 /\ drawn_card' = r.drawn_card
                 /\ status' = r.status
                 /\ draw_pile' = r.draw_pile
        ELSE /\ ~last'.ok
             /\ UNCHANGED << hand, drawn_card, status, draw_pile >>]_vars

(* ------------------------------------------------------------------ *)
(* Properties of play, continued (under Spec)                           *)
(* ------------------------------------------------------------------ *)

\* C31: when the discard pile holds exactly one card, a same_rank_play of any
\* card held by the actor is accepted whatever its rank, the card leaves its
\* slot (a hole stays at that index, every other slot as before) and becomes
\* the new top of the discard pile; with an empty discard pile every
\* same_rank_play is rejected.
C31_SeedCase ==
  [][/\ \A p \in Players, c \in CardIds :
          (OffersSameRank(p, c) /\ Len(discard_pile) = 1)
          => /\ last'.ok
             /\ hand' = [hand EXCEPT ![p][Position(hand[p], c)] = NoCard]
             /\ discard_pile' = Append(discard_pile, c)
     /\ (now' = now + 1 /\ last'.op = "same_rank_play" /\ discard_pile = <<>>)
          => ~last'.ok /\ discard_pile' = <<>>]_vars

\* C31 witness: on a discard pile of one card a card of another rank was
\* accepted; it lies on top and its slot, not the last of the hand, is a hole.
C31_Witness ==
  /\ last.op = "same_rank_play" /\ last.ok
  /\ Len(discard_pile) = 2 /\ Top(discard_pile) = last.card
  /\ RankOf(last.card) # RankOf(discard_pile[1])
  /\ \E i \in DOMAIN hand[last.who] :
       hand[last.who][i] = NoCard /\ i < Len(hand[last.who])

\* C32: after an accepted call_recall by player p while no recall caller is
\* recorded, the table's recall-caller id is p.
C32_CallRecallRecordsCaller ==
  [][\A p \in Players :
       (/\ now' = now + 1 /\ last'.op = "call_recall" /\ last'.ok /\ last'.who = p
        /\ recall_called_by = NoPlayer)
       => recall_called_by' = p]_vars

(* ------------------------------------------------------------------ *)
(* Properties of the start of the game (under SpecStart)                *)
(* ------------------------------------------------------------------ *)

\* The card ids in the hands and on the draw pile, and how many cards that are.
DealtIds ==
  UNION { SeqToSet(hand[p]) \ {NoCard} : p \in DOMAIN hand } \cup SeqToSet(draw_pile)
DealtCount ==
  SumOver([p \in DOMAIN hand |-> HandSize(hand[p])], DOMAIN hand) + Len(draw_pile)

\* C33: start_game succeeds exactly when the number of joined players is at
\* least min_players and the game has not started yet; on failure the table is
\* unchanged; on success the phase is dealing_cards, the current-player pointer
\* names a joined player, every player holds exactly 4 cards, the draw pile
\* holds 54 - 4n cards for n players, the discard pile is empty and all 54 card
\* ids are distinct.
C33_StartGame ==
  [][last'.op = "start_game"
     => LET n == Cardinality(DOMAIN status)
        IN  /\ last'.ok <=> (n >= min_players /\ ~game_started)
            /\ ~last'.ok
                 => UNCHANGED << phase, status, hand, order, draw_pile, discard_pile,
                                 current_player_id, game_started >>
            /\ last'.ok
                 => /\ phase' = "dealing_cards"
                    /\ current_player_id' \in DOMAIN status
                    /\ \A p \in DOMAIN status : HandSize(hand'[p]) = 4
                    /\ Len(draw_pile') = 54 - 4 * n
                    /\ discard_pile' = <<>>
                    /\ DealtCount' = 54 /\ Cardinality(DealtIds') = 54]_vars

(* ------------------------------------------------------------------ *)
(* Progress of the turn (under SpecProgress)                            *)
(* ------------------------------------------------------------------ *)

\* C34: from any state with phase same_rank_window and at least one active
\* player, if no further player action arrives and every armed timer
\* eventually fires, the table eventually reaches phase player_turn or
\* game_ended (so it does not stay forever in same_rank_window,
\* special_play_window, turn_pending_events or ending_round).
C34_TurnProgress ==
  (quiet /\ phase = "same_rank_window" /\ ActivePlayers(Cur) # {})
    ~> (phase \in {"player_turn", "game_ended"})

\* C34 witness: the players fell silent in the same-rank window, the window
\* closed, the special-card timer ran the queue down and the next turn started.
C34_Witness ==
  /\ quiet
  /\ last.op = "special_card_timer" /\ last.moved.entered
  /\ LastThree(last.moved.trace)
       = <<"special_play_window", "turn_pending_events", "ending_round">>
  /\ "same_rank_window" \in SeqToSet(last.moved.trace)
  /\ phase = "player_turn"

(* ------------------------------------------------------------------ *)
(* Properties of the hand-over of the turn (under SpecAdvance)          *)
(* ------------------------------------------------------------------ *)

\* Invocations i .. i + k - 1 of the run all found the same k active players.
SteadyRun(i, k) ==
  /\ i + k - 1 <= Len(advances)
  /\ Cardinality(advances[i].on_entry) = k
  /\ \A j \in i .. (i + k - 1) : advances[j].on_entry = advances[i].on_entry

\* C35: if a recall caller is recorded and is an active player, and the set
\* of k active players does not change, then within at most k consecutive
\* invocations of _move_to_next_player the phase becomes game_ended; if the
\* recorded recall caller is not an active player the invocation never ends
\* the match.
C35_RecallEndsWithinOneCycle ==
  /\ \A i \in 1 .. Len(advances) : \A k \in 1 .. Cardinality(DOMAIN status) :
       (SteadyRun(i, k) /\ recall_called_by \in advances[i].on_entry)
         => \E j \in i .. (i + k - 1) : advances[j].ended
  /\ \A j \in 1 .. Len(advances) :
       advances[j].ended => recall_called_by \in advances[j].on_entry

\* C35 witness: three invocations in a row found the same three active
\* players, the recall caller among them; the first two started a turn and
\* the third ended the match.
C35_Witness ==
  /\ SteadyRun(1, 3)
  /\ recall_called_by \in advances[1].on_entry
  /\ ~advances[1].ended /\ ~advances[2].ended /\ advances[3].ended
  /\ phase = "game_ended"

(* ------------------------------------------------------------------ *)
(* Properties of the session maps (under SpecSessions)                  *)
(* ------------------------------------------------------------------ *)

\* C36: after any sequence of add_player, update_player_session,
\* remove_session and remove_player the two maps are mutual inverses:
\* player_sessions[p] = s if and only if session_players[s] = p, also when
\* a player rejoins with a session id that is bound to another player.
C36_SessionBiMap ==
  /\ \A p \in DOMAIN player_sessions :
       /\ player_sessions[p] \in DOMAIN session_players
       /\ session_players[player_sessions[p]] = p
  /\ \A s \in DOMAIN session_players :
       /\ session_players[s] \in DOMAIN player_sessions
       /\ player_sessions[session_players[s]] = s

(* ------------------------------------------------------------------ *)
(* Properties of the gates on player actions (under Spec)               *)
(* ------------------------------------------------------------------ *)

\* C37: a same_rank_play that reaches the engine while the phase is not
\* same_rank_window does not change the discard pile or any hand and adds no
\* entry to the same-rank table or to the special-card queue.
C37_SameRankPlayConfinedToWindow ==
  [][(/\ now' = now + 1
      /\ last'.op = "same_rank_play"
      /\ phase # "same_rank_window")
     => UNCHANGED << discard_pile, hand, same_rank_data, special_card_data >>]_vars

\* The actor of a request is the current player, in phase player_turn.
OwnsTurn(p) == p = current_player_id /\ phase = "player_turn"

\* C38: draw_from_deck and play_card change the piles, a hand or the phase
\* only when the actor is the current player and the phase is player_turn,
\* draw_from_deck only when the actor's status is also drawing_card; from
\* any other player or in any other phase they are rejected.
C38_TurnOwnership ==
  [][(/\ now' = now + 1
      /\ last'.op \in {"draw_from_deck", "play_card"}
      /\ ~(/\ OwnsTurn(last'.who)
           /\ last'.op = "draw_from_deck" => status[last'.who] = "drawing_card"))
     => /\ ~last'.ok
        /\ UNCHANGED << draw_pile, discard_pile, hand, phase >>]_vars

\* C39: a jack_swap changes hands only when the actor has status jack_swap,
\* and a queen_peek fills a peek buffer only when the actor has status
\* queen_peek; from any other player or at any other time they are
\* rejected.
C39_PowersGatedByQueue ==
  [][/\ (/\ now' = now + 1
         /\ last'.op = "jack_swap"
         /\ status[last'.who] # "jack_swap")
        => (~last'.ok /\ UNCHANGED hand)
     /\ (/\ now' = now + 1
         /\ last'.op = "queen_peek"
         /\ status[last'.who] # "queen_peek")
        => (~last'.ok /\ UNCHANGED cards_to_peek)]_vars

(* ------------------------------------------------------------------ *)
(* Conservation over hands and piles (under Spec)                       *)
(* ------------------------------------------------------------------ *)

\* The number of hand slots and pile positions that hold card c.
InHandsAndPiles(c) ==
  SumOver([p \in Players |-> Count(hand[p], c)], Players)
    + Count(draw_pile, c) + Count(discard_pile, c)

\* C40: in every state reachable from the dealt table by player actions and
\* timer expiries, every card id of the deck occurs exactly once in the
\* union of all hand slots, the draw pile and the discard pile, and nothing
\* but cards of the deck and empty slots is there; drawn-card registers and
\* peek buffers are not counted.
C40_ConservedAcrossHandsAndPiles ==
  /\ \A c \in CardIds : InHandsAndPiles(c) = 1
  /\ \A p \in Players : SeqToSet(hand[p]) \subseteq CardIds \cup {NoCard}
  /\ SeqToSet(draw_pile) \cup SeqToSet(discard_pile) \subseteq CardIds

\* C40 witness: cards have left the draw pile and a hand, the discard pile
\* holds two cards, the latest put there by an accepted same_rank_play, and a
\* drawn-card register still names a card that is in a hand.
C40_Witness ==
  /\ last.op = "same_rank_play" /\ last.ok
  /\ Len(discard_pile) = 2 /\ Top(discard_pile) = last.card
  /\ Len(draw_pile) < Len(InitDrawPile)
  /\ \E p \in Players : drawn_card[p] # NoCard /\ Holds(p, drawn_card[p])

====
